---- MODULE Spec2Model ----
(***************************************************************************)
(* State-machine model of numpy/core/src/umath/ufunc_object.c: the         *)
(* reduction entry points (reduce / accumulate / reduceat), the            *)
(* generalized-ufunc signature parser and core-dimension validation, and   *)
(* the elementwise execution paths.                                        *)
(*                                                                         *)
(* Arrays are modelled as named buffers held in `mem`; a buffer is a       *)
(* function row -> (position along the operated axis -> element).  The     *)
(* per-dtype kernels are opaque to the engine, so the binary kernel is     *)
(* modelled as a free (uninterpreted) operation: InnerOp(a, b) = <<a, b>>. *)
(***************************************************************************)
EXTENDS Integers, Sequences, FiniteSets, TLC

(***************************************************************************)
(* Bounds of the model.                                                    *)
(***************************************************************************)
MaxAxis == 3
MaxOuter == 2
MaxInd == 3

(***************************************************************************)
(* Elements.  Input element (r, c) is the atom <<10 r + c>>; the contents  *)
(* a caller-supplied output held before the call are distinct atoms; a     *)
(* freshly allocated array holds Garbage; a read outside an array yields   *)
(* OutOfBounds.                                                            *)
(***************************************************************************)
Element(kind, r, c) ==
    CASE kind = "input" -> <<10 * r + c>>
      [] kind = "junk" -> <<100 + 10 * r + c>>
      [] kind = "garbage" -> <<-1>>
      [] OTHER -> <<-2>>
Atom(r, c) == Element("input", r, c)
OutOfBounds == Element("none", 0, 0)
InnerOp(a, b) == <<a, b>>

Buffers == {"A", "O", "T", "C"}
NoBuffer == [rows |-> 0, len |-> 0, data |-> << >>]

Filled(rows, len, kind) ==
    [rows |-> rows, len |-> len,
     data |-> [r \in 0..(rows - 1) |-> [c \in 0..(len - 1) |-> Element(kind, r, c)]]]

InBuffer(m, p) ==
    /\ p[1] \in DOMAIN m
    /\ p[2] \in DOMAIN m[p[1]].data
    /\ p[3] \in DOMAIN m[p[1]].data[p[2]]

Load(m, p) == IF InBuffer(m, p) THEN m[p[1]].data[p[2]][p[3]] ELSE OutOfBounds

Store(m, p, v) ==
    IF InBuffer(m, p) THEN [m EXCEPT ![p[1]].data[p[2]][p[3]] = v] ELSE m

Advance(p, k) == <<p[1], p[2], p[3] + k>>

(***************************************************************************)
(* The binary strided inner loop: for j in 0..count-1 the element at       *)
(* args[2] + j steps[2] becomes op(element at args[0] + j steps[0],        *)
(* element at args[1] + j steps[1]).  (Tuples are 1-based in the model.)   *)
(***************************************************************************)
RECURSIVE InnerLoopFrom(_, _, _, _, _)
InnerLoopFrom(m, args, count, steps, j) ==
    IF j >= count THEN m
    ELSE InnerLoopFrom(
            Store(m, Advance(args[3], j * steps[3]),
                  InnerOp(Load(m, Advance(args[1], j * steps[1])),
                          Load(m, Advance(args[2], j * steps[2])))),
            args, count, steps, j + 1)

innerloop(m, args, count, steps) == InnerLoopFrom(m, args, count, steps, 0)

(***************************************************************************)
(* Array geometry.                                                         *)
(***************************************************************************)
PyArray_SIZE(m, b) == m[b].rows * m[b].len
SameShape(m, a, b) == m[a].rows = m[b].rows /\ m[a].len = m[b].len

(***************************************************************************)
(* State of one reduction call (PyUFunc_Accumulate / PyUFunc_Reduceat).    *)
(***************************************************************************)
VARIABLES
    operation,   \* "accumulate" | "reduceat" | "none"
    arr,         \* [ndim, rows, len]: the input array; len is the extent of axis
    ind,         \* reduceat_ind: 0..ind_size-1 -> index
    out,         \* the out argument: "NULL", "O" (caller's array) or "A" (out is arr)
    otype,       \* "NPY_OBJECT" or "NPY_LONG"
    mem,         \* buffer name -> [rows, len, data]
    op,          \* op[0], op[1]: buffers the loop works on (1-based tuple)
    iter,        \* the outer NpyIter: [state, row, writeback]
    i,           \* segment index of the reduceat loop
    pc,          \* position in the function
    ret,         \* returned array ("NULL" on failure, "" while running)
    err,         \* error set
    calls,       \* kernel invocations made so far
    ufunc,       \* the PyUFuncObject the call is made on
    call,        \* arguments of the call that are not arrays held in mem
    initial,     \* PyUFunc_Reduce: the initial value handed to the reduction
    core         \* generalized call: op_core_num_dims, core_dim_flags, core_dim_sizes

redVars == <<operation, arr, ind, out, otype, mem, op, iter, i, pc, ret, err, calls>>
frontVars == <<ufunc, call, initial, core>>
vars == <<redVars, frontVars>>

ind_size == Cardinality(DOMAIN ind)
red_axis_size == arr.len
NoIter == [state |-> "NULL", row |-> 0, writeback |-> "NULL"]

FrontIdle ==
    /\ ufunc = "NULL"
    /\ call = "NULL"
    /\ initial = "NULL"
    /\ core = "NULL"

RedIdle ==
    /\ operation = "none"
    /\ arr = [ndim |-> 0, rows |-> 0, len |-> 0]
    /\ ind = << >>
    /\ out = "NULL"
    /\ otype = "NPY_LONG"
    /\ mem = [b \in Buffers |-> NoBuffer]
    /\ op = <<"NULL", "NULL">>
    /\ iter = NoIter
    /\ i = 0
    /\ pc = "idle"
    /\ ret = ""
    /\ err = "none"
    /\ calls = {}

Shapes ==
    {[ndim |-> 1, rows |-> 1, len |-> n] : n \in 0..MaxAxis}
    \cup {[ndim |-> 2, rows |-> r, len |-> n] : r \in 0..MaxOuter, n \in 0..MaxAxis}

IndexSeqs(n) ==
    UNION {[0..(k - 1) -> (-1)..n] : k \in 0..MaxInd}

InitialMem(shape, o, olen) ==
    [b \in Buffers |->
        IF b = "A" THEN Filled(shape.rows, shape.len, "input")
        ELSE IF b = "O" /\ o = "O" THEN Filled(shape.rows, olen, "junk")
        ELSE NoBuffer]

(***************************************************************************)
(* Entry to PyUFunc_Reduceat: any array of rank 1 or 2, any index          *)
(* sequence, out absent, a separate array (of the right or of a wrong      *)
(* extent), or the input array itself.                                     *)
(***************************************************************************)
ReduceatInit ==
    /\ FrontIdle
    /\ operation = "reduceat"
    /\ arr \in Shapes
    /\ ind \in IndexSeqs(arr.len)
    /\ out \in {"NULL", "O", "A"}
    /\ otype \in {"NPY_OBJECT", "NPY_LONG"}
    /\ \E olen \in {ind_size, ind_size + 1} : mem = InitialMem(arr, out, olen)
    /\ op = <<"NULL", "NULL">>
    /\ iter = NoIter
    /\ i = 0
    /\ pc = "start"
    /\ ret = ""
    /\ err = "none"
    /\ calls = {}

(***************************************************************************)
(* PyUFunc_Reduceat                                                        *)
(***************************************************************************)
IndexOutOfBounds_OffByOne(idx, axis_size) == idx < 0 \/ idx > axis_size
IndexOutOfBounds(idx, axis_size) == idx < 0 \/ idx >= axis_size

RA_CheckIndices ==
    /\ operation = "reduceat"
    /\ pc = "start"
    /\ IF \E j \in DOMAIN ind : IndexOutOfBounds(ind[j], red_axis_size)
       THEN pc' = "done" /\ ret' = "NULL" /\ err' = "IndexError"
       ELSE pc' = "get_loop" /\ UNCHANGED <<ret, err>>
    /\ UNCHANGED frontVars
    /\ UNCHANGED <<operation, arr, ind, out, otype, mem, op, iter, i, calls>>

(* _get_bufsize_errmask and get_binary_op_function: either may fail. *)
RA_GetLoop ==
    /\ operation = "reduceat"
    /\ pc = "get_loop"
    /\ \E r \in {"ok", "bufsize_error", "no_loop"} :
          CASE r = "ok" -> pc' = "setup" /\ UNCHANGED <<ret, err>>
            [] r = "bufsize_error" -> pc' = "done" /\ ret' = "NULL" /\ err' = "ExtobjError"
            [] r = "no_loop" -> pc' = "done" /\ ret' = "NULL" /\ err' = "ValueError"
    /\ UNCHANGED frontVars
    /\ UNCHANGED <<operation, arr, ind, out, otype, mem, op, iter, i, calls>>

(***************************************************************************)
(* The outer iterator NpyIter_AdvancedNew builds for reduceat: op[0] is    *)
(* READWRITE|NO_BROADCAST|ALLOCATE|UPDATEIFCOPY, op[1] is READONLY|COPY,   *)
(* with COPY_IF_OVERLAP.  cast_in / cast_out say whether the input / the   *)
(* supplied output need a cast or aligned copy.                            *)
(***************************************************************************)
CopyInto(m, dst, src) == [m EXCEPT ![dst] = m[src]]

OuterIterator(m, o, out_rows, out_len, cast_in, cast_out, elementwise) ==
    LET m1 == IF cast_in THEN CopyInto(m, "C", "A") ELSE m
        o1 == IF cast_in THEN "C" ELSE "A"
        overlap == o = "A" /\ ~(elementwise /\ ~cast_in /\ ~cast_out)
        copy_out == o # "NULL" /\ (cast_out \/ overlap)
    IN  IF o # "NULL" /\ ~(m[o].rows = out_rows /\ m[o].len = out_len)
        THEN [ok |-> FALSE, mem |-> m, op |-> <<"NULL", "NULL">>, writeback |-> "NULL"]
        ELSE IF o = "NULL"
        THEN [ok |-> TRUE,
              mem |-> [m1 EXCEPT !["T"] = Filled(out_rows, out_len, "garbage")],
              op |-> <<"T", o1>>, writeback |-> "NULL"]
        ELSE IF copy_out
        THEN [ok |-> TRUE, mem |-> CopyInto(m1, "T", o),
              op |-> <<"T", o1>>, writeback |-> o]
        ELSE [ok |-> TRUE, mem |-> m1, op |-> <<o, o1>>, writeback |-> "NULL"]

ReduceatNeedOuterIterator(aligned, equiv) ==
    out # "NULL" \/ arr.ndim > 1 \/ ~aligned \/ ~equiv

ReduceatAfterSetup(m, o0, it) ==
    IF PyArray_SIZE(m, o0) = 0 THEN "finish"
    ELSE IF it.state # "NULL" /\ arr.rows # 0 THEN "iter_loop"
    ELSE IF it.state = "NULL" THEN "noiter_loop"
    ELSE "finish"

RA_SetupOuterIterator ==
    /\ operation = "reduceat"
    /\ pc = "setup"
    /\ \E aligned \in BOOLEAN, equiv \in BOOLEAN, cast_out \in BOOLEAN, alloc_ok \in BOOLEAN :
          /\ ReduceatNeedOuterIterator(aligned, equiv)
          /\ out = "A" => cast_out = (~aligned \/ ~equiv)
          /\ out = "NULL" => ~cast_out
          /\ LET it == OuterIterator(mem, out, arr.rows, ind_size,
                                     ~aligned \/ ~equiv, cast_out, FALSE)
             IN IF it.ok /\ alloc_ok
                THEN /\ mem' = it.mem
                     /\ op' = it.op
                     /\ iter' = [state |-> "active", row |-> 0, writeback |-> it.writeback]
                     /\ out' = IF out = "NULL" THEN it.op[1] ELSE out
                     /\ pc' = ReduceatAfterSetup(it.mem, it.op[1], iter')
                     /\ UNCHANGED <<ret, err>>
                ELSE /\ pc' = "done" /\ ret' = "NULL" /\ err' = "IterError"
                     /\ UNCHANGED <<mem, op, iter, out>>
    /\ UNCHANGED frontVars
    /\ UNCHANGED <<operation, arr, ind, otype, i, calls>>

RA_AllocateNoIterator ==
    /\ operation = "reduceat"
    /\ pc = "setup"
    /\ ~ReduceatNeedOuterIterator(TRUE, TRUE)
    /\ \E alloc_ok \in BOOLEAN :
          IF alloc_ok
          THEN /\ mem' = [mem EXCEPT !["T"] = Filled(1, ind_size, "garbage")]
               /\ op' = <<"T", "A">>
               /\ out' = "T"
               /\ pc' = ReduceatAfterSetup(mem', "T", iter)
               /\ UNCHANGED <<ret, err>>
          ELSE /\ pc' = "done" /\ ret' = "NULL" /\ err' = "MemoryError"
               /\ UNCHANGED <<mem, op, out>>
    /\ UNCHANGED frontVars
    /\ UNCHANGED <<operation, arr, ind, otype, iter, i, calls>>

SegmentEnd_AlwaysAxisEnd(j, axis_len) == axis_len
SegmentEnd(j, axis_len) == IF j = ind_size - 1 THEN axis_len ELSE ind[j + 1]
SegmentCount_Reversed(start, end) == IF end >= start THEN end - start ELSE start - end
SegmentCount(start, end) == end - start
KernelNeeded(count) == count > 1

(* One pass of the body of `for (i = 0; i < ind_size; ++i)`. *)
ReduceatSegment(m, o0, o1, row, j, axis_len) ==
    LET start == ind[j]
        count == SegmentCount(start, SegmentEnd(j, axis_len))
        d0 == <<o0, row, j>>
        d1 == <<o1, row, start>>
        m1 == Store(m, d0, Load(m, d1))
    IN  IF KernelNeeded(count)
        THEN innerloop(m1, <<d0, Advance(d1, 1), d0>>, count - 1, <<0, 1, 0>>)
        ELSE m1

ReduceatCalls(row, j, axis_len) ==
    LET count == SegmentCount(ind[j], SegmentEnd(j, axis_len))
    IN  IF KernelNeeded(count)
        THEN {[row |-> row, seg |-> j, first |-> j, step |-> 0, count |-> count - 1]}
        ELSE {}

RA_IterSegment ==
    /\ operation = "reduceat"
    /\ pc = "iter_loop"
    /\ mem' = ReduceatSegment(mem, op[1], op[2], iter.row, i, mem[op[2]].len)
    /\ calls' = calls \cup ReduceatCalls(iter.row, i, mem[op[2]].len)
    /\ IF i + 1 < ind_size
       THEN i' = i + 1 /\ UNCHANGED <<iter, pc>>
       ELSE /\ i' = 0
            /\ IF iter.row + 1 < arr.rows
               THEN iter' = [iter EXCEPT !.row = iter.row + 1] /\ pc' = pc
               ELSE pc' = "finish" /\ iter' = iter
    /\ UNCHANGED frontVars
    /\ UNCHANGED <<operation, arr, ind, out, otype, op, ret, err>>

RA_NoIterSegment ==
    /\ operation = "reduceat"
    /\ pc = "noiter_loop"
    /\ mem' = ReduceatSegment(mem, op[1], op[2], 0, i, arr.len)
    /\ calls' = calls \cup ReduceatCalls(0, i, arr.len)
    /\ IF i + 1 < ind_size
       THEN i' = i + 1 /\ pc' = pc
       ELSE i' = 0 /\ pc' = "finish"
    /\ UNCHANGED frontVars
    /\ UNCHANGED <<operation, arr, ind, out, otype, op, iter, ret, err>>

(* finish: NpyIter_Deallocate resolves a pending write-back copy. *)
Deallocate(m, it, o0) ==
    IF it.writeback # "NULL" THEN [m EXCEPT ![it.writeback].data = m[o0].data] ELSE m

RA_Finish ==
    /\ operation = "reduceat"
    /\ pc = "finish"
    /\ \E dealloc_ok \in (IF iter.state = "NULL" THEN {TRUE} ELSE BOOLEAN) :
          IF dealloc_ok
          THEN /\ mem' = Deallocate(mem, iter, op[1])
               /\ ret' = out
               /\ err' = err
          ELSE /\ mem' = mem
               /\ ret' = "NULL"
               /\ err' = "DeallocError"
    /\ iter' = IF iter.state = "NULL" THEN iter ELSE [iter EXCEPT !.state = "deallocated"]
    /\ pc' = "done"
    /\ UNCHANGED frontVars
    /\ UNCHANGED <<operation, arr, ind, out, otype, op, i, calls>>

ReduceatNext ==
    \/ RA_CheckIndices
    \/ RA_GetLoop
    \/ RA_SetupOuterIterator
    \/ RA_AllocateNoIterator
    \/ RA_IterSegment
    \/ RA_NoIterSegment
    \/ RA_Finish

SpecReduceat == ReduceatInit /\ [][ReduceatNext]_vars

(***************************************************************************)
(* PyUFunc_Accumulate                                                      *)
(***************************************************************************)
AccumulateInit ==
    /\ FrontIdle
    /\ operation = "accumulate"
    /\ arr \in Shapes
    /\ ind = << >>
    /\ out \in {"NULL", "O", "A"}
    /\ otype \in {"NPY_OBJECT", "NPY_LONG"}
    /\ \E olen \in {arr.len, arr.len + 1} : mem = InitialMem(arr, out, olen)
    /\ op = <<"NULL", "NULL">>
    /\ iter = NoIter
    /\ i = 0
    /\ pc = "start"
    /\ ret = ""
    /\ err = "none"
    /\ calls = {}

ACC_GetLoop ==
    /\ operation = "accumulate"
    /\ pc = "start"
    /\ \E r \in {"ok", "bufsize_error", "no_loop"} :
          CASE r = "ok" -> pc' = "setup" /\ UNCHANGED <<ret, err>>
            [] r = "bufsize_error" -> pc' = "done" /\ ret' = "NULL" /\ err' = "ExtobjError"
            [] r = "no_loop" -> pc' = "done" /\ ret' = "NULL" /\ err' = "ValueError"
    /\ UNCHANGED frontVars
    /\ UNCHANGED <<operation, arr, ind, out, otype, mem, op, iter, i, calls>>

solve_may_share_memory(a, b) == IF a = b THEN 1 ELSE 0

AccumulateNeedOuterIterator(aligned_in, equiv_in, aligned_out, equiv_out) ==
    IF \/ ~aligned_in
       \/ (out # "NULL" /\ ~aligned_out)
       \/ ~equiv_in
       \/ (out # "NULL" /\ ~equiv_out)
    THEN TRUE
    ELSE IF out # "NULL" /\ solve_may_share_memory(out, "A") # 0
    THEN TRUE
    ELSE arr.ndim > 1

AccumulateAfterSetup(m, o0, o1, it) ==
    IF m[o1].len = 0 THEN "finish"
    ELSE IF PyArray_SIZE(m, o0) = 0 THEN "finish"
    ELSE IF it.state # "NULL" /\ arr.rows # 0 THEN "iter_loop"
    ELSE IF it.state = "NULL" THEN "noiter_loop"
    ELSE "finish"

ACC_SetupOuterIterator ==
    /\ operation = "accumulate"
    /\ pc = "setup"
    /\ \E aligned_in \in BOOLEAN, equiv_in \in BOOLEAN,
          aligned_out \in BOOLEAN, equiv_out \in BOOLEAN, alloc_ok \in BOOLEAN :
          /\ out = "NULL" => (aligned_out /\ equiv_out)
          /\ out = "A" => (aligned_out = aligned_in /\ equiv_out = equiv_in)
          /\ AccumulateNeedOuterIterator(aligned_in, equiv_in, aligned_out, equiv_out)
          /\ LET it == OuterIterator(mem, out, arr.rows, arr.len,
                                     ~aligned_in \/ ~equiv_in,
                                     ~aligned_out \/ ~equiv_out, TRUE)
             IN IF it.ok /\ alloc_ok
                THEN /\ mem' = it.mem
                     /\ op' = it.op
                     /\ iter' = [state |-> "active", row |-> 0, writeback |-> it.writeback]
                     /\ out' = IF out = "NULL" THEN it.op[1] ELSE out
                     /\ pc' = AccumulateAfterSetup(it.mem, it.op[1], it.op[2], iter')
                     /\ UNCHANGED <<ret, err>>
                ELSE /\ pc' = "done" /\ ret' = "NULL" /\ err' = "IterError"
                     /\ UNCHANGED <<mem, op, iter, out>>
    /\ UNCHANGED frontVars
    /\ UNCHANGED <<operation, arr, ind, otype, i, calls>>

ACC_SetupNoIterator ==
    /\ operation = "accumulate"
    /\ pc = "setup"
    /\ ~AccumulateNeedOuterIterator(TRUE, TRUE, TRUE, TRUE)
    /\ IF out = "NULL"
       THEN \E alloc_ok \in BOOLEAN :
              IF alloc_ok
              THEN /\ mem' = [mem EXCEPT !["T"] = Filled(mem["A"].rows, mem["A"].len, "garbage")]
                   /\ op' = <<"T", "A">>
                   /\ out' = "T"
                   /\ pc' = AccumulateAfterSetup(mem', "T", "A", iter)
                   /\ UNCHANGED <<ret, err>>
              ELSE /\ pc' = "done" /\ ret' = "NULL" /\ err' = "MemoryError"
                   /\ UNCHANGED <<mem, op, out>>
       ELSE /\ op' = <<out, "A">>
            /\ pc' = AccumulateAfterSetup(mem, out, "A", iter)
            /\ UNCHANGED <<mem, out, ret, err>>
    /\ UNCHANGED frontVars
    /\ UNCHANGED <<operation, arr, ind, otype, iter, i, calls>>

(***************************************************************************)
(* Copy the first element, then one kernel call for the remaining          *)
(* count_m1 elements: args = (out, in + stride1, out + stride0).           *)
(***************************************************************************)
AccumulateRow_InputNotAdvanced(m, o0, o1, row, count_m1) ==
    LET d0 == <<o0, row, 0>>
        d1 == <<o1, row, 0>>
        m1 == Store(m, d0, Load(m, d1))
    IN  IF count_m1 > 0
        THEN innerloop(m1, <<d0, d1, Advance(d0, 1)>>, count_m1, <<1, 1, 1>>)
        ELSE m1

AccumulateRow(m, o0, o1, row, count_m1) ==
    LET d0 == <<o0, row, 0>>
        d1 == <<o1, row, 0>>
        m1 == Store(m, d0, Load(m, d1))
    IN  IF count_m1 > 0
        THEN innerloop(m1, <<d0, Advance(d1, 1), Advance(d0, 1)>>, count_m1, <<1, 1, 1>>)
        ELSE m1

AccumulateCalls(row, count_m1) ==
    IF count_m1 > 0
    THEN {[row |-> row, seg |-> 0, first |-> 1, step |-> 1, count |-> count_m1]}
    ELSE {}

ACC_IterRow ==
    /\ operation = "accumulate"
    /\ pc = "iter_loop"
    /\ mem' = AccumulateRow(mem, op[1], op[2], iter.row, mem[op[2]].len - 1)
    /\ calls' = calls \cup AccumulateCalls(iter.row, mem[op[2]].len - 1)
    /\ IF iter.row + 1 < arr.rows
       THEN iter' = [iter EXCEPT !.row = iter.row + 1] /\ pc' = pc
       ELSE pc' = "finish" /\ iter' = iter
    /\ UNCHANGED frontVars
    /\ UNCHANGED <<operation, arr, ind, out, otype, op, i, ret, err>>

ACC_NoIter ==
    /\ operation = "accumulate"
    /\ pc = "noiter_loop"
    /\ IF ~SameShape(mem, op[1], op[2])
       THEN /\ pc' = "done" /\ ret' = "NULL" /\ err' = "ValueError"
            /\ UNCHANGED <<mem, calls>>
       ELSE /\ mem' = AccumulateRow(mem, op[1], op[2], 0, mem[op[2]].len - 1)
            /\ calls' = calls \cup AccumulateCalls(0, mem[op[2]].len - 1)
            /\ pc' = "finish"
            /\ UNCHANGED <<ret, err>>
    /\ UNCHANGED frontVars
    /\ UNCHANGED <<operation, arr, ind, out, otype, op, iter, i>>

ACC_Finish ==
    /\ operation = "accumulate"
    /\ pc = "finish"
    /\ \E dealloc_ok \in (IF iter.state = "NULL" THEN {TRUE} ELSE BOOLEAN) :
          IF dealloc_ok
          THEN /\ mem' = Deallocate(mem, iter, op[1])
               /\ ret' = out
               /\ err' = err
          ELSE /\ mem' = mem
               /\ ret' = "NULL"
               /\ err' = "DeallocError"
    /\ iter' = IF iter.state = "NULL" THEN iter ELSE [iter EXCEPT !.state = "deallocated"]
    /\ pc' = "done"
    /\ UNCHANGED frontVars
    /\ UNCHANGED <<operation, arr, ind, out, otype, op, i, calls>>

AccumulateNext ==
    \/ ACC_GetLoop
    \/ ACC_SetupOuterIterator
    \/ ACC_SetupNoIterator
    \/ ACC_IterRow
    \/ ACC_NoIter
    \/ ACC_Finish

SpecAccumulate == AccumulateInit /\ [][AccumulateNext]_vars

(***************************************************************************)
(* Properties of reduceat and accumulate                                   *)
(***************************************************************************)
ReduceatReturned == operation = "reduceat" /\ pc = "done" /\ ret \in Buffers
AccumulateReturned == operation = "accumulate" /\ pc = "done" /\ ret \in Buffers
IndicesInRange == \A j \in DOMAIN ind : 0 <= ind[j] /\ ind[j] < arr.len
Degenerate(j) == j < ind_size - 1 /\ ind[j + 1] <= ind[j]
EndOfSegment(j) == IF j = ind_size - 1 THEN arr.len ELSE ind[j + 1]

RECURSIVE FoldLeft(_, _, _)
FoldLeft(r, s, e) ==
    IF e <= s + 1 THEN Atom(r, s)
    ELSE InnerOp(FoldLeft(r, s, e - 1), Atom(r, e - 1))

\* C1: reduceat, degenerate segments.  For every non-last position j with
\* ind[j+1] <= ind[j], the returned output holds a plain copy of
\* x[ind[j]] at j, and the kernel was never invoked for segment j; this is
\* stated over every call, with or without the outer iterator.
C1_DegenerateSegmentIsCopy ==
    /\ operation = "reduceat" => \A c \in calls : ~Degenerate(c.seg)
    /\ ReduceatReturned =>
          \A r \in 0..(arr.rows - 1), j \in DOMAIN ind :
              Degenerate(j) => Load(mem, <<ret, r, j>>) = Atom(r, ind[j])

C1_Witness ==
    /\ ReduceatReturned
    /\ iter.state = "deallocated"
    /\ arr.rows = 2
    /\ \E j \in DOMAIN ind : Degenerate(j) /\ ind[j + 1] < ind[j] - 1
    /\ calls # {}

\* C2: reduceat, segment fold.  The returned output has exactly
\* len(indices) entries along the axis, and every entry whose segment
\* [ind[j], end_j) is non-empty equals the left fold of the operation over
\* x[ind[j]], ..., x[end_j - 1], seeded with x[ind[j]].
C2_SegmentFold ==
    ReduceatReturned =>
       /\ mem[ret].len = ind_size
       /\ \A r \in 0..(arr.rows - 1) :
             /\ DOMAIN mem[ret].data[r] = 0..(ind_size - 1)
             /\ \A j \in DOMAIN ind :
                   EndOfSegment(j) > ind[j] =>
                      Load(mem, <<ret, r, j>>) = FoldLeft(r, ind[j], EndOfSegment(j))

C2_Witness ==
    /\ ReduceatReturned
    /\ iter.state = "NULL"
    /\ \E j \in DOMAIN ind : EndOfSegment(j) >= ind[j] + 3
    /\ \E j \in DOMAIN ind : j < ind_size - 1 /\ EndOfSegment(j) = ind[j] + 2

\* C3: reduceat, eager index validation.  If some index is < 0 or >= the
\* axis length the call fails with an index error, and it does so before any
\* output is allocated, any iterator is built or any kernel is called, leaving
\* the caller's arrays as they were; if every index is in range no index
\* error is raised.
C3_EagerIndexValidation ==
    operation = "reduceat" =>
       /\ ~IndicesInRange =>
             /\ pc \in {"start", "done"}
             /\ pc = "done" => (ret = "NULL" /\ err = "IndexError")
             /\ mem = InitialMem(arr, out, mem["O"].len)
             /\ iter = NoIter
             /\ op = <<"NULL", "NULL">>
             /\ calls = {}
       /\ IndicesInRange => err # "IndexError"

C3_Witness ==
    /\ operation = "reduceat"
    /\ pc = "done"
    /\ err = "IndexError"
    /\ out = "O"
    /\ ind_size >= 2
    /\ 0 <= ind[0] /\ ind[0] < arr.len
    /\ ind[ind_size - 1] >= arr.len

\* C4: accumulate recurrence.  For an axis of length n >= 1 the returned
\* output has length n, output[0] is a copy of input[0] that the kernel
\* never writes, and output[c] = op(output[c-1], input[c]) for 1 <= c < n;
\* this holds whether out is absent, a separate array or the input itself,
\* with or without the outer iterator.
C4_AccumulateRecurrence ==
    /\ operation = "accumulate" =>
          \A c \in calls : c.first = 1 /\ c.step = 1 /\ c.count = arr.len - 1
    /\ (AccumulateReturned /\ arr.len >= 1) =>
          /\ mem[ret].len = arr.len
          /\ \A r \in 0..(arr.rows - 1) :
                /\ DOMAIN mem[ret].data[r] = 0..(arr.len - 1)
                /\ Load(mem, <<ret, r, 0>>) = Atom(r, 0)
                /\ \A c \in 1..(arr.len - 1) :
                      Load(mem, <<ret, r, c>>) =
                          InnerOp(Load(mem, <<ret, r, c - 1>>), Atom(r, c))

C4_Witness ==
    /\ AccumulateReturned
    /\ out = "A"
    /\ op = <<"A", "A">>
    /\ arr.len >= 3
    /\ arr.rows = 2
    /\ Cardinality(calls) = 2

(***************************************************************************)
(* The ufunc object as PyUFunc_FromFuncAndDataAndSignatureAndIdentity      *)
(* leaves it when no signature is given.                                   *)
(***************************************************************************)
UFuncObject(name, nin, nout, identity) ==
    [name |-> name, nin |-> nin, nout |-> nout, nargs |-> nin + nout,
     identity |-> identity,
     core_enabled |-> 0, core_num_dim_ix |-> 0,
     core_num_dims |-> << >>, core_offsets |-> << >>, core_dim_ixs |-> << >>,
     core_dim_sizes |-> << >>, core_dim_flags |-> << >>]

(***************************************************************************)
(* Type numbers: classification macros and element sizes.  sizeof(long)    *)
(* is 4 or 8 depending on the platform the module is built for.            *)
(***************************************************************************)
TypeInfo(typenum, sizeof_long) ==
    LET signed == {"NPY_BYTE", "NPY_SHORT", "NPY_INT", "NPY_LONG", "NPY_LONGLONG"}
        unsigned == {"NPY_UBYTE", "NPY_USHORT", "NPY_UINT", "NPY_ULONG", "NPY_ULONGLONG"}
    IN  [ISBOOL |-> typenum = "NPY_BOOL",
         ISINTEGER |-> typenum \in signed \cup unsigned,
         ISUNSIGNED |-> typenum \in unsigned,
         ISFLEXIBLE |-> typenum = "NPY_STRING",
         ISOBJECT |-> typenum = "NPY_OBJECT",
         elsize |-> CASE typenum \in {"NPY_BOOL", "NPY_BYTE", "NPY_UBYTE", "NPY_STRING"} -> 1
                      [] typenum \in {"NPY_SHORT", "NPY_USHORT"} -> 2
                      [] typenum \in {"NPY_INT", "NPY_UINT"} -> 4
                      [] typenum \in {"NPY_LONG", "NPY_ULONG"} -> sizeof_long
                      [] OTHER -> 8]

(***************************************************************************)
(* PyUFunc_GenericReduction: the front end shared by reduce, accumulate    *)
(* and reduceat, followed by PyUFunc_Reduce up to the hand-over to         *)
(* PyUFunc_ReduceWrapper.                                                  *)
(*   call.dtype    the dtype= argument ("NULL" when absent)                *)
(*   call.out      the type of the out= array ("NULL" when absent)         *)
(*   call.initial  the initial= argument ("NULL" when absent)              *)
(*   call.axis     the axis= argument: "NULL", "None" or "int"             *)
(*   call.type     the type of the input array                             *)
(***************************************************************************)
ReductionUfuncs ==
    {UFuncObject("add", 2, 1, "PyUFunc_Zero"),
     UFuncObject("multiply", 2, 1, "PyUFunc_One"),
     UFuncObject("bitwise_and", 2, 1, "PyUFunc_MinusOne"),
     UFuncObject("maximum", 2, 1, "PyUFunc_ReorderableNone"),
     UFuncObject("subtract", 2, 1, "PyUFunc_None"),
     UFuncObject("logaddexp", 2, 1, "PyUFunc_IdentityValue"),
     UFuncObject("broken", 2, 1, "invalid"),
     UFuncObject("negative", 1, 1, "PyUFunc_None"),
     UFuncObject("divmod", 2, 2, "PyUFunc_None"),
     [UFuncObject("matmul", 2, 1, "PyUFunc_None") EXCEPT !.core_enabled = 1]}

InputTypes ==
    {"NPY_BOOL", "NPY_BYTE", "NPY_UBYTE", "NPY_INT", "NPY_UINT", "NPY_LONG",
     "NPY_ULONG", "NPY_LONGLONG", "NPY_DOUBLE", "NPY_OBJECT", "NPY_STRING"}

GenericReductionInit ==
    /\ operation \in {"reduce", "accumulate", "reduceat"}
    /\ ufunc \in ReductionUfuncs
    /\ call \in [dtype : {"NULL", "NPY_UBYTE", "NPY_STRING"},
                 out : {"NULL", "NPY_UBYTE", "NPY_DOUBLE"},
                 initial : IF operation = "reduce" THEN {"NULL", "None", "given"}
                           ELSE {"NULL"},
                 axis : {"NULL", "None"},
                 type : InputTypes,
                 sizeof_long : {4, 8},
                 override : {"unchecked"}]
    /\ arr \in {[ndim |-> 0, rows |-> 1, len |-> 1],
                [ndim |-> 1, rows |-> 1, len |-> 0],
                [ndim |-> 1, rows |-> 1, len |-> 2],
                [ndim |-> 2, rows |-> 2, len |-> 2]}
    /\ ind = << >>
    /\ out = IF call.out = "NULL" THEN "NULL" ELSE "O"
    /\ otype = "NULL"
    /\ mem = [b \in Buffers |-> NoBuffer]
    /\ op = <<"NULL", "NULL">>
    /\ iter = NoIter
    /\ i = 0
    /\ pc = "gr_start"
    /\ ret = ""
    /\ err = "none"
    /\ calls = {}
    /\ initial = "NULL"
    /\ core = "NULL"

GR_Fail(e) ==
    /\ pc' = "done"
    /\ ret' = "NULL"
    /\ err' = e

GR_CheckUfunc ==
    /\ pc = "gr_start"
    /\ IF ufunc.core_enabled # 0 THEN GR_Fail("RuntimeError")
       ELSE IF ufunc.nin # 2 THEN GR_Fail("ValueError")
       ELSE IF ufunc.nout # 1 THEN GR_Fail("ValueError")
       ELSE pc' = "gr_parse" /\ UNCHANGED <<ret, err>>
    /\ UNCHANGED <<operation, arr, ind, out, otype, mem, op, iter, i, calls>>
    /\ UNCHANGED frontVars

(* npy_parse_arguments, then PyUFunc_CheckOverride. *)
GR_ParseArguments ==
    /\ pc = "gr_parse"
    /\ \E r \in {"ok", "parse_error", "override_error", "override"} :
          CASE r = "ok" ->
                  /\ pc' = "gr_convert" /\ UNCHANGED <<ret, err>>
                  /\ call' = [call EXCEPT !.override = "none"]
            [] r = "parse_error" -> GR_Fail("TypeError") /\ call' = call
            [] r = "override_error" ->
                  /\ GR_Fail("OverrideError")
                  /\ call' = [call EXCEPT !.override = "error"]
            [] r = "override" ->
                  /\ pc' = "done" /\ ret' = "override" /\ err' = err
                  /\ call' = [call EXCEPT !.override = "override"]
    /\ UNCHANGED <<operation, arr, ind, out, otype, mem, op, iter, i, calls>>
    /\ UNCHANGED <<ufunc, initial, core>>

(* Conversion of indices, dtype, out, keepdims, where and the input. *)
GR_ConvertArguments ==
    /\ pc = "gr_convert"
    /\ \E converted \in BOOLEAN :
          IF ~converted THEN GR_Fail("ConversionError")
          ELSE IF \/ TypeInfo(call.type, call.sizeof_long).ISFLEXIBLE
                  \/ (call.dtype # "NULL"
                        /\ TypeInfo(call.dtype, call.sizeof_long).ISFLEXIBLE)
          THEN GR_Fail("TypeError")
          ELSE pc' = "gr_otype" /\ UNCHANGED <<ret, err>>
    /\ otype' = IF pc' = "gr_otype" THEN call.dtype ELSE otype
    /\ UNCHANGED <<operation, arr, ind, out, mem, op, iter, i, calls>>
    /\ UNCHANGED frontVars

naxes ==
    IF call.axis = "NULL" THEN (IF arr.ndim = 0 THEN 0 ELSE 1) ELSE arr.ndim

(***************************************************************************)
(* The reduction dtype: an explicit dtype, else the type of out, else the  *)
(* input type, widened for add and multiply over booleans and integers     *)
(* narrower than long.                                                     *)
(***************************************************************************)
ReductionOtype_OutIgnored(o, out_type, typenum, name, sizeof_long) ==
    IF o # "NULL" THEN o
    ELSE IF /\ (TypeInfo(typenum, sizeof_long).ISBOOL
                  \/ TypeInfo(typenum, sizeof_long).ISINTEGER)
            /\ (name = "add" \/ name = "multiply")
    THEN IF TypeInfo(typenum, sizeof_long).ISBOOL THEN "NPY_LONG"
         ELSE IF TypeInfo(typenum, sizeof_long).elsize < sizeof_long
         THEN (IF TypeInfo(typenum, sizeof_long).ISUNSIGNED THEN "NPY_ULONG"
               ELSE "NPY_LONG")
         ELSE typenum
    ELSE typenum

ReductionOtype(o, out_type, typenum, name, sizeof_long) ==
    LET o1 == IF o = "NULL" /\ out_type # "NULL" THEN out_type ELSE o
    IN  IF o1 # "NULL" THEN o1
        ELSE IF /\ (TypeInfo(typenum, sizeof_long).ISBOOL
                      \/ TypeInfo(typenum, sizeof_long).ISINTEGER)
                /\ (name = "add" \/ name = "multiply")
        THEN IF TypeInfo(typenum, sizeof_long).ISBOOL THEN "NPY_LONG"
             ELSE IF TypeInfo(typenum, sizeof_long).elsize < sizeof_long
             THEN (IF TypeInfo(typenum, sizeof_long).ISUNSIGNED THEN "NPY_ULONG"
                   ELSE "NPY_LONG")
             ELSE typenum
        ELSE typenum

GR_ResolveOtype ==
    /\ pc = "gr_otype"
    /\ otype' = ReductionOtype(otype, call.out, call.type, ufunc.name, call.sizeof_long)
    /\ pc' = "gr_dispatch"
    /\ UNCHANGED <<operation, arr, ind, out, mem, op, iter, i, ret, err, calls>>
    /\ UNCHANGED frontVars

(***************************************************************************)
(* switch (operation): reduce enters PyUFunc_Reduce; accumulate and        *)
(* reduceat refuse scalars and several axes and then hand the call, with   *)
(* otype->type_num, to PyUFunc_Accumulate / PyUFunc_Reduceat.              *)
(***************************************************************************)
GR_Dispatch ==
    /\ pc = "gr_dispatch"
    /\ IF operation = "reduce" THEN pc' = "reduce_setup" /\ UNCHANGED <<ret, err>>
       ELSE IF arr.ndim = 0 THEN GR_Fail("TypeError")
       ELSE IF naxes # 1 THEN GR_Fail("ValueError")
       ELSE pc' = "handed_over" /\ UNCHANGED <<ret, err>>
    /\ UNCHANGED <<operation, arr, ind, out, otype, mem, op, iter, i, calls>>
    /\ UNCHANGED frontVars

_get_identity(uf) ==
    CASE uf.identity = "PyUFunc_One" -> "1"
      [] uf.identity = "PyUFunc_Zero" -> "0"
      [] uf.identity = "PyUFunc_MinusOne" -> "-1"
      [] uf.identity = "PyUFunc_ReorderableNone" -> "None"
      [] uf.identity = "PyUFunc_None" -> "None"
      [] uf.identity = "PyUFunc_IdentityValue" -> "identity_value"
      [] OTHER -> "NULL"

(* PyUFunc_Reduce up to and including _get_identity. *)
Reduce_GetIdentity ==
    /\ pc = "reduce_setup"
    /\ \E bufsize_ok \in BOOLEAN :
          IF ~bufsize_ok THEN GR_Fail("ExtobjError")
          ELSE IF _get_identity(ufunc) = "NULL" THEN GR_Fail("ValueError")
          ELSE pc' = "reduce_initial" /\ UNCHANGED <<ret, err>>
    /\ UNCHANGED <<operation, arr, ind, out, otype, mem, op, iter, i, calls>>
    /\ UNCHANGED frontVars

(* "Get the initial value". *)
ReduceInitial_ObjectRuleAlways(given, identity, isobject, size) ==
    LET seed == IF given = "NULL" THEN identity ELSE given
    IN  IF seed # "None" /\ isobject /\ size # 0 THEN "None" ELSE seed

ReduceInitial(given, identity, isobject, size) ==
    IF given = "NULL"
    THEN IF identity # "None" /\ isobject /\ size # 0 THEN "None" ELSE identity
    ELSE given

Reduce_GetInitial ==
    /\ pc = "reduce_initial"
    /\ initial' = ReduceInitial(call.initial, _get_identity(ufunc),
                                TypeInfo(call.type, call.sizeof_long).ISOBJECT,
                                arr.rows * arr.len)
    /\ pc' = "reduce_wrapper"
    /\ UNCHANGED <<ufunc, call, core>>
    /\ UNCHANGED <<operation, arr, ind, out, otype, mem, op, iter, i, ret, err, calls>>

(* reduce_type_resolver, then PyUFunc_ReduceWrapper with `initial`. *)
Reduce_Wrapper ==
    /\ pc = "reduce_wrapper"
    /\ \E r \in {"no_loop", "failed", "result"} :
          CASE r = "no_loop" -> GR_Fail("TypeError")
            [] r = "failed" -> GR_Fail("ReduceError")
            [] r = "result" -> pc' = "done" /\ ret' = "result" /\ err' = err
    /\ UNCHANGED <<operation, arr, ind, out, otype, mem, op, iter, i, calls>>
    /\ UNCHANGED frontVars

GenericReductionNext ==
    \/ GR_CheckUfunc
    \/ GR_ParseArguments
    \/ GR_ConvertArguments
    \/ GR_ResolveOtype
    \/ GR_Dispatch
    \/ Reduce_GetIdentity
    \/ Reduce_GetInitial
    \/ Reduce_Wrapper

SpecGenericReduction == GenericReductionInit /\ [][GenericReductionNext]_vars

(***************************************************************************)
(* Properties of the reduction front end                                   *)
(***************************************************************************)
OtypeResolved ==
    pc \in {"gr_dispatch", "handed_over", "reduce_setup", "reduce_initial", "reduce_wrapper"}

NarrowerThanLong(typenum) ==
    /\ TypeInfo(typenum, call.sizeof_long).ISINTEGER
    /\ TypeInfo(typenum, call.sizeof_long).elsize < call.sizeof_long

GuardedOtype ==
    IF ufunc.name \in {"add", "multiply"} /\ call.type = "NPY_BOOL" THEN "NPY_LONG"
    ELSE IF ufunc.name \in {"add", "multiply"} /\ NarrowerThanLong(call.type)
    THEN (IF TypeInfo(call.type, call.sizeof_long).ISUNSIGNED THEN "NPY_ULONG"
          ELSE "NPY_LONG")
    ELSE call.type

\* C6 as stated: in every reduce / accumulate / reduceat call without an
\* explicit dtype the reduction dtype is long for a boolean input of add or
\* multiply, long / unsigned long for a signed / unsigned integer input
\* narrower than long, and the input type otherwise.
C6_Original_NoDtypeMeansGuarded ==
    (OtypeResolved /\ call.dtype = "NULL") => otype = GuardedOtype

\* C6 (amended): integer-overflow guard.  In every reduce / accumulate /
\* reduceat call with neither an explicit dtype nor an out array the reduction
\* dtype is long for a boolean input of add or multiply, long / unsigned long
\* for a signed / unsigned integer input narrower than long, and the input
\* type otherwise; without an explicit dtype but with an out array it is the
\* type of the out array, with no widening.
C6_OverflowGuard ==
    (OtypeResolved /\ call.dtype = "NULL") =>
       /\ call.out = "NULL" => otype = GuardedOtype
       /\ call.out # "NULL" => otype = call.out

C6_Witness ==
    /\ pc = "handed_over"
    /\ operation = "accumulate"
    /\ ufunc.name = "add"
    /\ call.dtype = "NULL" /\ call.out = "NULL"
    /\ call.type = "NPY_UINT" /\ call.sizeof_long = 8
    /\ otype = "NPY_ULONG"

\* C7: reduce seed resolution.  The initial value handed to the reduction is
\* the explicit initial= when one is given, whatever the dtype; otherwise it
\* is the ufunc's built-in identity, except that for an object array of
\* nonzero size a built-in identity other than None is replaced by None.
C7_ReduceSeed ==
    (operation = "reduce" /\ (pc = "reduce_wrapper" \/ ret = "result")) =>
       /\ call.initial # "NULL" => initial = call.initial
       /\ call.initial = "NULL" =>
             initial = IF /\ call.type = "NPY_OBJECT"
                          /\ arr.rows * arr.len # 0
                          /\ _get_identity(ufunc) # "None"
                       THEN "None"
                       ELSE _get_identity(ufunc)

C7_Witness ==
    /\ operation = "reduce"
    /\ ret = "result"
    /\ call.initial = "NULL"
    /\ call.type = "NPY_OBJECT"
    /\ arr.len = 2
    /\ ufunc.identity = "PyUFunc_Zero"
    /\ initial = "None"

(***************************************************************************)
(* Signature strings.  A signature is a sequence of characters; reading at *)
(* or past its end yields the terminating NUL.  Offsets count from 0 as in *)
(* the C code.                                                             *)
(***************************************************************************)
MaxSigDims == 4

Letters ==
    {"a", "b", "c", "d", "e", "f", "g", "h", "i", "j", "k", "l", "m", "n", "o",
     "p", "q", "r", "s", "t", "u", "v", "w", "x", "y", "z", "_",
     "A", "B", "C", "D", "E", "F", "G", "H", "I", "J", "K", "L", "M", "N", "O",
     "P", "Q", "R", "S", "T", "U", "V", "W", "X", "Y", "Z"}
DigitChars == <<"0", "1", "2", "3", "4", "5", "6", "7", "8", "9">>

At(str, k) == IF k >= 0 /\ k < Len(str) THEN str[k + 1] ELSE "NUL"

RECURSIVE _next_non_white_space(_, _)
_next_non_white_space(str, offset) ==
    IF At(str, offset) = " " \/ At(str, offset) = "\t"
    THEN _next_non_white_space(str, offset + 1)
    ELSE offset

_is_alpha_underscore(ch) == ch \in Letters
_is_alnum_underscore(ch) ==
    _is_alpha_underscore(ch) \/ (\E d \in DOMAIN DigitChars : DigitChars[d] = ch)

(***************************************************************************)
(* NumPyOS_strtoll(str, &stop, 10) on the text at `offset`: an optional    *)
(* sign and a run of decimal digits; without digits stop stays at str.     *)
(***************************************************************************)
RECURSIVE strtoll_stop(_, _)
strtoll_stop(str, k) ==
    IF \E d \in DOMAIN DigitChars : DigitChars[d] = At(str, k)
    THEN strtoll_stop(str, k + 1)
    ELSE k

RECURSIVE strtoll_value(_, _, _)
strtoll_value(str, first, stop) ==
    IF stop <= first THEN 0
    ELSE 10 * strtoll_value(str, first, stop - 1)
         + (CHOOSE d \in DOMAIN DigitChars : DigitChars[d] = At(str, stop - 1)) - 1

(* Sizes of the model's signatures have at most two digits, so the range  *)
(* test against NPY_MAX_INTP / NPY_MIN_INTP never rejects.                 *)
_get_size(str, offset) ==
    LET signed == At(str, offset) = "-" \/ At(str, offset) = "+"
        first == IF signed THEN offset + 1 ELSE offset
        stop == strtoll_stop(str, first)
        size == IF At(str, offset) = "-" THEN 0 - strtoll_value(str, first, stop)
                ELSE strtoll_value(str, first, stop)
    IN  IF stop = first \/ _is_alpha_underscore(At(str, stop))
        THEN -1
        ELSE size

RECURSIVE _get_end_of_name(_, _)
_get_end_of_name(str, offset) ==
    IF _is_alnum_underscore(At(str, offset)) THEN _get_end_of_name(str, offset + 1)
    ELSE IF At(str, offset) = "?" THEN offset + 1
    ELSE offset

_is_same_name_FirstCharacter(str, s1, s2) == At(str, s1) = At(str, s2)

RECURSIVE _is_same_name(_, _, _)
_is_same_name(str, s1, s2) ==
    IF _is_alnum_underscore(At(str, s1)) /\ _is_alnum_underscore(At(str, s2))
    THEN IF At(str, s1) # At(str, s2) THEN FALSE
         ELSE _is_same_name(str, s1 + 1, s2 + 1)
    ELSE ~_is_alnum_underscore(At(str, s1)) /\ ~_is_alnum_underscore(At(str, s2))

(***************************************************************************)
(* C arrays are functions on 0..n-1; flag words are sets of flag names,    *)
(* so that |= is union and ^= is symmetric difference.                     *)
(***************************************************************************)
Size(f) == Cardinality(DOMAIN f)
Append0(f, v) == [k \in 0..Size(f) |-> IF k < Size(f) THEN f[k] ELSE v]
FlagXor(word, flag) == (word \ {flag}) \cup ({flag} \ word)

(***************************************************************************)
(* _parse_signature.  The parser state st holds the locals i, cur_arg,     *)
(* cur_core_dim, nd, var_names and parse_error, the ufunc being filled in  *)
(* (st.uf), and the number of writes that fell past the nargs entries of   *)
(* core_num_dims / core_offsets (st.overrun).                              *)
(***************************************************************************)
ParseFail(st, parse_error) == [st EXCEPT !.parse_error = parse_error]

(* The one element of a singleton.  A value that a loop hands on to its    *)
(* next pass is bound with \in {...}, so that it is computed once.          *)
Once(S) == CHOOSE v \in S : TRUE

QuestionMarkError_OnlyNewQuestionMark(can_ignore, flags) ==
    IF can_ignore /\ "CAN_IGNORE" \notin flags
    THEN "? cannot be used, name already seen without ?"
    ELSE "NULL"

QuestionMarkError(can_ignore, flags) ==
    IF can_ignore /\ "CAN_IGNORE" \notin flags
    THEN "? cannot be used, name already seen without ?"
    ELSE IF ~can_ignore /\ "CAN_IGNORE" \in flags
    THEN "? must be used, name already seen with ?"
    ELSE "NULL"

(* The core dimension at st.i: its index ix, and the ufunc with it entered. *)
CoreDimension(str, st) ==
    LET frozen_size == IF _is_alpha_underscore(At(str, st.i)) THEN -1
                       ELSE _get_size(str, st.i)
        i_end == _get_end_of_name(str, st.i)
        can_ignore == i_end > 0 /\ At(str, i_end - 1) = "?"
        seen == {x \in 0..(st.uf.core_num_dim_ix - 1) :
                    IF frozen_size > 0 THEN frozen_size = st.uf.core_dim_sizes[x]
                    ELSE _is_same_name(str, st.i, st.var_names[x])}
        ix == IF seen = {} THEN st.uf.core_num_dim_ix
              ELSE CHOOSE x \in seen : \A y \in seen : x <= y
        flags == (IF frozen_size < 0 THEN {"SIZE_INFERRED"} ELSE {})
                 \cup (IF can_ignore THEN {"CAN_IGNORE"} ELSE {})
    IN  IF frozen_size <= 0 /\ ~_is_alpha_underscore(At(str, st.i))
        THEN ParseFail(st, "expect dimension name or non-zero frozen size")
        ELSE IF ix = st.uf.core_num_dim_ix
        THEN [st EXCEPT !.uf.core_num_dim_ix = ix + 1,
                        !.var_names = Append0(st.var_names, st.i),
                        !.uf.core_dim_sizes = Append0(st.uf.core_dim_sizes, frozen_size),
                        !.uf.core_dim_flags = Append0(st.uf.core_dim_flags, flags),
                        !.uf.core_dim_ixs = Append0(st.uf.core_dim_ixs, ix),
                        !.cur_core_dim = st.cur_core_dim + 1,
                        !.nd = st.nd + 1,
                        !.i = _next_non_white_space(str, i_end)]
        ELSE IF QuestionMarkError(can_ignore, st.uf.core_dim_flags[ix]) # "NULL"
        THEN ParseFail(st, QuestionMarkError(can_ignore, st.uf.core_dim_flags[ix]))
        ELSE [st EXCEPT !.uf.core_dim_ixs = Append0(st.uf.core_dim_ixs, ix),
                        !.cur_core_dim = st.cur_core_dim + 1,
                        !.nd = st.nd + 1,
                        !.i = _next_non_white_space(str, i_end)]

(* while (signature[i] != ')'): the core dimensions of one argument. *)
RECURSIVE CoreDimensions(_, _)
CoreDimensions(str, st) ==
    IF At(str, st.i) = ")" THEN st
    ELSE IF At(str, st.i) = "NUL"
    THEN ParseFail(st, "unexpected end of signature string")
    ELSE Once({
            IF st1.parse_error # "NULL" THEN st1
            ELSE IF At(str, st1.i) # "," /\ At(str, st1.i) # ")"
            THEN ParseFail(st1, "expect ',' or ')'")
            ELSE IF At(str, st1.i) = ","
            THEN Once({IF At(str, st2.i) = ")"
                       THEN ParseFail(st2, "',' must not be followed by ')'")
                       ELSE CoreDimensions(str, st2) :
                       st2 \in {[st1 EXCEPT !.i = _next_non_white_space(str, st1.i + 1)]}})
            ELSE CoreDimensions(str, st1) :
            st1 \in {CoreDimension(str, st)}})

(* An argument's closing ')': its core_num_dims and core_offsets are      *)
(* stored, cur_arg moves on and nd starts again at 0.                       *)
ArgumentClosed(st1) ==
    LET inside == st1.cur_arg < st1.uf.nargs
    IN  [st1 EXCEPT
           !.uf.core_num_dims = IF inside THEN Append0(st1.uf.core_num_dims, st1.nd)
                                ELSE st1.uf.core_num_dims,
           !.uf.core_offsets = IF inside
                               THEN Append0(st1.uf.core_offsets, st1.cur_core_dim - st1.nd)
                               ELSE st1.uf.core_offsets,
           !.overrun = IF inside THEN st1.overrun ELSE st1.overrun + 1,
           !.cur_arg = st1.cur_arg + 1,
           !.nd = 0]

(* while (signature[i] != '\0'): the input and output arguments. *)
RECURSIVE Arguments(_, _)
Arguments(str, st) ==
    IF At(str, st.i) = "NUL" THEN st
    ELSE IF st.cur_arg = st.uf.nin /\ (At(str, st.i) # "-" \/ At(str, st.i + 1) # ">")
    THEN ParseFail(st, "expect '->'")
    ELSE Once({
            IF At(str, st0.i) # "(" THEN ParseFail(st0, "expect '('")
            ELSE Once({
                    IF st1.parse_error # "NULL" THEN st1
                    ELSE Once({
                            IF st2.cur_arg # st2.uf.nin /\ st2.cur_arg # st2.uf.nargs
                            THEN IF At(str, st2.i) # ","
                                 THEN ParseFail(st2, "expect ','")
                                 ELSE Once({Arguments(str, st3) :
                                            st3 \in {[st2 EXCEPT !.i =
                                                _next_non_white_space(str, st2.i + 1)]}})
                            ELSE Arguments(str, st2) :
                            st2 \in {[ArgumentClosed(st1) EXCEPT !.i =
                                         _next_non_white_space(str, st1.i + 1)]}}) :
                    st1 \in {Once({CoreDimensions(str, open) :
                                   open \in {[st0 EXCEPT !.i =
                                       _next_non_white_space(str, st0.i + 1)]}})}}) :
            st0 \in {IF st.cur_arg = st.uf.nin
                     THEN [st EXCEPT !.i = _next_non_white_space(str, st.i + 2)]
                     ELSE st}})

_parse_signature(uf, str) ==
    Once({IF st.parse_error # "NULL" THEN st
          ELSE IF st.cur_arg # st.uf.nargs
          THEN ParseFail(st, "incomplete signature: not all arguments found")
          ELSE IF st.cur_core_dim = 0 THEN [st EXCEPT !.uf.core_enabled = 0]
          ELSE st :
          st \in {Once({Arguments(str, st0) :
                    st0 \in {[i |-> _next_non_white_space(str, 0), cur_arg |-> 0,
                              cur_core_dim |-> 0, nd |-> 0, var_names |-> << >>,
                              parse_error |-> "NULL", overrun |-> 0,
                              uf |-> [uf EXCEPT !.core_enabled = 1,
                                                !.core_num_dim_ix = 0]]}})}})

(***************************************************************************)
(* Signatures handed to PyUFunc_FromFuncAndDataAndSignature.  The          *)
(* generated ones are built from dimension tokens: every way of writing at *)
(* most MaxSigDims tokens into the arguments of a ufunc with nin inputs    *)
(* and one output.  call.tokens remembers the tokens a well-formed         *)
(* signature was written from (dim: the name, or # and the value of a      *)
(* fixed size; opt: written with a trailing ?).                            *)
(***************************************************************************)
DimTokens ==
    {[text |-> <<"i">>, dim |-> "i", opt |-> FALSE],
     [text |-> <<"i", "?">>, dim |-> "i", opt |-> TRUE],
     [text |-> <<"j">>, dim |-> "j", opt |-> FALSE],
     [text |-> <<"2">>, dim |-> "#2", opt |-> FALSE],
     [text |-> <<"2", "?">>, dim |-> "#2", opt |-> TRUE]}

RECURSIVE CoreText(_, _, _)
CoreText(flat, lo, hi) ==
    IF lo > hi THEN << >>
    ELSE IF lo = hi THEN flat[lo].text
    ELSE flat[lo].text \o <<",">> \o CoreText(flat, lo + 1, hi)

ArgumentText(flat, lo, hi) == <<"(">> \o CoreText(flat, lo, hi) \o <<")">>

(* flat[1..a], flat[a+1..b] and flat[b+1..] are the core dimensions of the *)
(* arguments; a unary ufunc has b = a.                                     *)
SignatureOf(flat, a, b, nin) ==
    [signature |->
        IF nin = 1
        THEN ArgumentText(flat, 1, a) \o <<"-", ">">> \o ArgumentText(flat, a + 1, Len(flat))
        ELSE ArgumentText(flat, 1, a) \o <<",">> \o ArgumentText(flat, a + 1, b)
             \o <<"-", ">">> \o ArgumentText(flat, b + 1, Len(flat)),
     tokens |-> [k \in 1..Len(flat) |-> [dim |-> flat[k].dim, opt |-> flat[k].opt]],
     wellformed |-> TRUE, nin |-> nin, nout |-> 1]

WrittenSignatures ==
    {[signature |-> <<"(", "i", ")", ",", " ", "(", "i", ")", " ", "-", ">", " ", "(", ")">>,
      tokens |-> <<[dim |-> "i", opt |-> FALSE], [dim |-> "i", opt |-> FALSE]>>, wellformed |-> TRUE, nin |-> 2, nout |-> 1],
     [signature |-> <<"(", " ", "i", " ", ",", " ", "2", " ", ")", "-", ">", "(", " ", "2", " ", ",", " ", "i", " ", ")">>,
      tokens |-> <<[dim |-> "i", opt |-> FALSE], [dim |-> "#2", opt |-> FALSE], [dim |-> "#2", opt |-> FALSE], [dim |-> "i", opt |-> FALSE]>>, wellformed |-> TRUE, nin |-> 1, nout |-> 1],
     [signature |-> <<"(", "n", "?", ",", "k", ")", ",", "(", "k", ",", "m", "?", ")", "-", ">", "(", "n", "?", ",", "m", "?", ")">>,
      tokens |-> <<[dim |-> "n", opt |-> TRUE], [dim |-> "k", opt |-> FALSE], [dim |-> "k", opt |-> FALSE], [dim |-> "m", opt |-> TRUE], [dim |-> "n", opt |-> TRUE], [dim |-> "m", opt |-> TRUE]>>, wellformed |-> TRUE, nin |-> 2, nout |-> 1],
     [signature |-> <<"(", "2", "?", ")", ",", "(", "0", "2", ")", "-", ">", "(", ")">>,
      tokens |-> <<[dim |-> "#2", opt |-> TRUE], [dim |-> "#2", opt |-> FALSE]>>, wellformed |-> TRUE, nin |-> 2, nout |-> 1],
     [signature |-> <<"(", "i", ")", ",", "(", "i", "j", "?", ")", "-", ">", "(", "i", "j", "?", ",", "i", ")">>,
      tokens |-> <<[dim |-> "i", opt |-> FALSE], [dim |-> "ij", opt |-> TRUE], [dim |-> "ij", opt |-> TRUE], [dim |-> "i", opt |-> FALSE]>>, wellformed |-> TRUE, nin |-> 2, nout |-> 1],
     [signature |-> <<"(", "i", "_", "1", ")", ",", "(", "i", "_", "1", "?", ")", "-", ">", "(", ")">>,
      tokens |-> <<[dim |-> "i_1", opt |-> FALSE], [dim |-> "i_1", opt |-> TRUE]>>, wellformed |-> TRUE, nin |-> 2, nout |-> 1],
     [signature |-> <<"(", "i", "j", ",", "2", ")", ",", "(", "0", "2", ",", "i", ")", "-", ">", "(", "i", ",", " ", "i", "j", ")">>,
      tokens |-> <<[dim |-> "ij", opt |-> FALSE], [dim |-> "#2", opt |-> FALSE], [dim |-> "#2", opt |-> FALSE], [dim |-> "i", opt |-> FALSE], [dim |-> "i", opt |-> FALSE], [dim |-> "ij", opt |-> FALSE]>>, wellformed |-> TRUE, nin |-> 2, nout |-> 1],
     [signature |-> <<"(", "i", ",", ")", "-", ">", "(", ")">>,
      tokens |-> <<>>, wellformed |-> FALSE, nin |-> 1, nout |-> 1],
     [signature |-> <<"(", "i", ")", "(", "i", ")", "-", ">", "(", ")">>,
      tokens |-> <<>>, wellformed |-> FALSE, nin |-> 2, nout |-> 1],
     [signature |-> <<"(", "i", ")", ",", "(", "i", ")">>,
      tokens |-> <<>>, wellformed |-> FALSE, nin |-> 2, nout |-> 1],
     [signature |-> <<"(", "i", ")", ",", "(", "i", ")", "-", ">", "(", ")", "(", ")">>,
      tokens |-> <<>>, wellformed |-> FALSE, nin |-> 2, nout |-> 1],
     [signature |-> <<"(", "i", ")", ",", "(", "i", ")", "-", ">", "(", ")", ",", "(", ")">>,
      tokens |-> <<>>, wellformed |-> FALSE, nin |-> 2, nout |-> 1],
     [signature |-> <<"(", "i", " ", "?", ")", ",", "(", "i", ")", "-", ">", "(", ")">>,
      tokens |-> <<>>, wellformed |-> FALSE, nin |-> 2, nout |-> 1],
     [signature |-> <<"(", "0", ")", "-", ">", "(", ")">>,
      tokens |-> <<>>, wellformed |-> FALSE, nin |-> 1, nout |-> 1],
     [signature |-> <<"(", "-", "2", ")", "-", ">", "(", ")">>,
      tokens |-> <<>>, wellformed |-> FALSE, nin |-> 1, nout |-> 1],
     [signature |-> <<"(", "i", ")", ",", "(", "2", "i", ")", "-", ">", "(", ")">>,
      tokens |-> <<>>, wellformed |-> FALSE, nin |-> 2, nout |-> 1],
     [signature |-> <<"(", "i", ")", ",", "(", "?", ")", "-", ">", "(", ")">>,
      tokens |-> <<>>, wellformed |-> FALSE, nin |-> 2, nout |-> 1],
     [signature |-> <<"(", "i", "-", ">", "(", "i", ")">>,
      tokens |-> <<>>, wellformed |-> FALSE, nin |-> 1, nout |-> 1],
     [signature |-> <<"i", "-", ">", "i">>,
      tokens |-> <<>>, wellformed |-> FALSE, nin |-> 1, nout |-> 1],
     [signature |-> <<>>,
      tokens |-> <<>>, wellformed |-> FALSE, nin |-> 1, nout |-> 1]}

SignatureInit ==
    /\ operation = "create"
    /\ \/ \E nin \in {1, 2}, n \in 0..MaxSigDims :
             \E flat \in [1..n -> DimTokens], a \in 0..n :
                \E b \in (IF nin = 1 THEN {a} ELSE a..n) :
                   call = SignatureOf(flat, a, b, nin)
       \/ call \in WrittenSignatures
    /\ ufunc = "NULL"
    /\ initial = "NULL"
    /\ core = "NULL"
    /\ arr = [ndim |-> 0, rows |-> 0, len |-> 0]
    /\ ind = << >>
    /\ out = "NULL"
    /\ otype = "NULL"
    /\ mem = [b \in Buffers |-> NoBuffer]
    /\ op = <<"NULL", "NULL">>
    /\ iter = NoIter
    /\ i = 0
    /\ pc = "create"
    /\ ret = ""
    /\ err = "none"
    /\ calls = {}

(***************************************************************************)
(* PyUFunc_FromFuncAndDataAndSignatureAndIdentity with a signature: the    *)
(* object is allocated and filled in, the signature is parsed, and on a    *)
(* parse error the object is released and NULL returned; i keeps the       *)
(* position the error message reports.                                     *)
(***************************************************************************)
FromFuncAndDataAndSignature ==
    /\ pc = "create"
    /\ \E allocated \in BOOLEAN :
          LET st == _parse_signature(
                       UFuncObject("gufunc", call.nin, call.nout, "PyUFunc_None"),
                       call.signature)
          IN  IF ~allocated
              THEN ufunc' = "NULL" /\ ret' = "NULL" /\ err' = "MemoryError" /\ i' = i
              ELSE IF st.parse_error # "NULL"
              THEN ufunc' = "NULL" /\ ret' = "NULL" /\ err' = st.parse_error /\ i' = st.i
              ELSE ufunc' = st.uf /\ ret' = "ufunc" /\ err' = err /\ i' = i
    /\ pc' = "created"
    /\ UNCHANGED <<operation, arr, ind, out, otype, mem, op, iter, calls>>
    /\ UNCHANGED <<call, initial, core>>

SignatureNext ==
    \/ FromFuncAndDataAndSignature

SpecSignature == SignatureInit /\ [][SignatureNext]_vars

(***************************************************************************)
(* Properties of the signature parser                                      *)
(***************************************************************************)
Parsed == operation = "create" /\ pc = "created" /\ err # "MemoryError"

QuestionMarkClash ==
    \E p, q \in DOMAIN call.tokens :
        /\ call.tokens[p].dim = call.tokens[q].dim
        /\ call.tokens[p].opt # call.tokens[q].opt

\* C10: '?' consistency.  For every well-formed signature: if some dimension
\* (same name, or same fixed size) is written once with a trailing '?' and
\* once without, in either order, parsing fails with one of the two '?' parse
\* errors; if every dimension is written the same way each time, parsing
\* succeeds and each dimension carries the can-ignore flag exactly when it was
\* written with '?'.
C10_QuestionMarkConsistency ==
    (Parsed /\ call.wellformed) =>
       /\ QuestionMarkClash =>
             /\ ret = "NULL"
             /\ err \in {"? cannot be used, name already seen without ?",
                         "? must be used, name already seen with ?"}
       /\ ~QuestionMarkClash =>
             /\ ret = "ufunc"
             /\ \A p \in DOMAIN call.tokens :
                   ("CAN_IGNORE" \in ufunc.core_dim_flags[ufunc.core_dim_ixs[p - 1]])
                       <=> call.tokens[p].opt

C10_Witness ==
    /\ Parsed
    /\ call.wellformed
    /\ err = "? must be used, name already seen with ?"
    /\ \E p, q \in DOMAIN call.tokens :
          /\ p < q
          /\ call.tokens[p] = [dim |-> "#2", opt |-> TRUE]
          /\ call.tokens[q] = [dim |-> "#2", opt |-> FALSE]
          /\ call.signature[Len(call.signature) - 6] = "0"

(* The text of argument k lies between the k-th '(' and the k-th ')'; it   *)
(* holds no dimension when it is blank and one more than its commas        *)
(* otherwise.                                                              *)
Occurrences(ch) == {p \in 1..Len(call.signature) : call.signature[p] = ch}
Nth(S, k) == CHOOSE p \in S : Cardinality({q \in S : q < p}) = k
WrittenCoreNumDims(k) ==
    LET inner == {p \in (Nth(Occurrences("("), k) + 1)..(Nth(Occurrences(")"), k) - 1) :
                     call.signature[p] \notin {" ", "\t"}}
    IN  IF inner = {} THEN 0
        ELSE 1 + Cardinality({p \in inner : call.signature[p] = ","})

RECURSIVE WrittenCoreOffset(_)
WrittenCoreOffset(k) ==
    IF k = 0 THEN 0 ELSE WrittenCoreOffset(k - 1) + WrittenCoreNumDims(k - 1)

\* C11: dimension identity.  After a well-formed signature is parsed, two of
\* its dimension tokens carry the same index in core_dim_ixs exactly when they
\* are the same name (the '?' apart) or fixed sizes of the same value, and a
\* name never shares an index with a fixed size; core_num_dim_ix is the number
\* of distinct names and distinct fixed sizes; core_num_dims[k] is the number
\* of dimensions written for argument k and core_offsets[k] the number written
\* for the arguments before it.
C11_DimensionIdentity ==
    (Parsed /\ call.wellformed /\ ret = "ufunc") =>
       /\ Size(ufunc.core_dim_ixs) = Len(call.tokens)
       /\ \A p, q \in DOMAIN call.tokens :
             (ufunc.core_dim_ixs[p - 1] = ufunc.core_dim_ixs[q - 1])
                 <=> (call.tokens[p].dim = call.tokens[q].dim)
       /\ ufunc.core_num_dim_ix
             = Cardinality({call.tokens[p].dim : p \in DOMAIN call.tokens})
       /\ \A k \in 0..(ufunc.nargs - 1) :
             /\ ufunc.core_num_dims[k] = WrittenCoreNumDims(k)
             /\ ufunc.core_offsets[k] = WrittenCoreOffset(k)

C11_Witness ==
    /\ Parsed
    /\ ret = "ufunc"
    /\ [k \in DOMAIN call.tokens |-> call.tokens[k].dim] = <<"ij", "#2", "#2", "i", "i", "ij">>
    /\ call.signature[9] = "0"
    /\ ufunc.core_dim_ixs = [k \in 0..5 |-> <<0, 1, 1, 2, 2, 0>>[k + 1]]
    /\ ufunc.core_num_dim_ix = 3
    /\ ufunc.core_offsets = [k \in 0..2 |-> <<0, 2, 4>>[k + 1]]

(***************************************************************************)
(* Generalized ufunc calls: PyUFunc_GeneralizedFunctionInternal.           *)
(*                                                                         *)
(* An operand array is [null, shape]; op is the function 0..nop-1 ->       *)
(* array of the operands, with null outputs where none was supplied.       *)
(* core holds op_core_num_dims, core_dim_flags and core_dim_sizes, the     *)
(* per-call copies made by _initialize_variable_parts, and the list of     *)
(* dimensions _validate_num_dims dropped, in the order it dropped them.    *)
(* Extents are 0, 1 and one larger value.                                  *)
(***************************************************************************)
MaxRank == 2
MaxExtent == 2

NullArray == [null |-> TRUE, shape |-> << >>]
Arrays == {[null |-> FALSE, shape |-> sh] : sh \in UNION {[1..r -> {0, 1, MaxExtent}] : r \in 0..MaxRank}}
PyArray_NDIM(a) == Len(a.shape)
PyArray_DIM(a, k) == IF k >= 0 /\ k < Len(a.shape) THEN a.shape[k + 1] ELSE -1

GufuncSignatures ==
    {[signature |-> <<"(", "i", ")", ",", "(", "i", ")", "-", ">", "(", ")">>,
      nin |-> 2, nout |-> 1],
     [signature |-> <<"(", "n", "?", ",", "k", ")", ",", "(", "k", ",", "m", "?", ")", "-", ">", "(", "n", "?", ",", "m", "?", ")">>,
      nin |-> 2, nout |-> 1],
     [signature |-> <<"(", "i", ")", "-", ">", "(", "j", ")">>,
      nin |-> 1, nout |-> 1],
     [signature |-> <<"(", "2", ",", "i", ")", "-", ">", "(", "i", ")">>,
      nin |-> 1, nout |-> 1],
     [signature |-> <<"(", "i", "?", ",", "i", "?", ",", "j", "?", ")", "-", ">", "(", "j", "?", ")">>,
      nin |-> 1, nout |-> 1],
     [signature |-> <<"(", "2", "?", ",", "i", ")", "-", ">", "(", ")">>,
      nin |-> 1, nout |-> 1]}

GufuncInit ==
    /\ operation = "gufunc"
    /\ call \in GufuncSignatures
    /\ ufunc = _parse_signature(UFuncObject("gufunc", call.nin, call.nout, "PyUFunc_None"),
                                call.signature).uf
    /\ op \in [0..(call.nin + call.nout - 1) -> Arrays \cup {NullArray}]
    /\ \A k \in 0..(call.nin - 1) : ~op[k].null
    /\ core = "NULL"
    /\ initial = "NULL"
    /\ arr = [ndim |-> 0, rows |-> 0, len |-> 0]
    /\ ind = << >>
    /\ out = "NULL"
    /\ otype = "NULL"
    /\ mem = [b \in Buffers |-> NoBuffer]
    /\ iter = NoIter
    /\ i = 0
    /\ pc = "guf_start"
    /\ ret = ""
    /\ err = "none"
    /\ calls = {}

_initialize_variable_parts(uf) ==
    [op_core_num_dims |-> [k \in 0..(uf.nargs - 1) |-> uf.core_num_dims[k]],
     core_dim_sizes |-> [d \in 0..(uf.core_num_dim_ix - 1) |-> uf.core_dim_sizes[d]],
     core_dim_flags |-> [d \in 0..(uf.core_num_dim_ix - 1) |-> uf.core_dim_flags[d]],
     dropped |-> << >>]

GUF_InitializeVariableParts ==
    /\ pc = "guf_start"
    /\ core' = _initialize_variable_parts(ufunc)
    /\ pc' = "guf_validate"
    /\ UNCHANGED <<operation, arr, ind, out, otype, mem, op, iter, i, ret, err, calls>>
    /\ UNCHANGED <<ufunc, call, initial>>

(***************************************************************************)
(* _validate_num_dims                                                      *)
(***************************************************************************)
(* The value k has reached when the loop over i1, j1 arrives at (i1, 0). *)
RECURSIVE CoreDimIxsBefore(_, _)
CoreDimIxsBefore(uf, i1) ==
    IF i1 = 0 THEN 0 ELSE CoreDimIxsBefore(uf, i1 - 1) + uf.core_num_dims[i1 - 1]

(* "Reduce the number of core dimensions for all operands that use this one". *)
ReduceCoreNumDims_OncePerOperand(uf, op_core_num_dims, core_dim_index) ==
    [i1 \in DOMAIN op_core_num_dims |->
        IF \E j1 \in 0..(uf.core_num_dims[i1] - 1) :
              uf.core_dim_ixs[CoreDimIxsBefore(uf, i1) + j1] = core_dim_index
        THEN op_core_num_dims[i1] - 1
        ELSE op_core_num_dims[i1]]

ReduceCoreNumDims(uf, op_core_num_dims, core_dim_index) ==
    [i1 \in DOMAIN op_core_num_dims |->
        op_core_num_dims[i1]
        - Cardinality({j1 \in 0..(uf.core_num_dims[i1] - 1) :
                          uf.core_dim_ixs[CoreDimIxsBefore(uf, i1) + j1] = core_dim_index})]

(* for (j = core_offset; j < core_offset + ufunc->core_num_dims[i]; j++) *)
RECURSIVE DropIgnorable(_, _, _, _, _)
DropIgnorable(uf, c, op_ndim, k, j) ==
    IF j >= uf.core_offsets[k] + uf.core_num_dims[k] THEN c
    ELSE IF "CAN_IGNORE" \in c.core_dim_flags[uf.core_dim_ixs[j]]
    THEN Once({IF op_ndim = c1.op_core_num_dims[k] THEN c1
               ELSE DropIgnorable(uf, c1, op_ndim, k, j + 1) :
               c1 \in {LET core_dim_index == uf.core_dim_ixs[j]
                       IN  [c EXCEPT
                              !.core_dim_flags[core_dim_index] =
                                  FlagXor(c.core_dim_flags[core_dim_index] \cup {"MISSING"},
                                          "CAN_IGNORE"),
                              !.op_core_num_dims =
                                  ReduceCoreNumDims(uf, c.op_core_num_dims, core_dim_index),
                              !.dropped = Append(c.dropped,
                                  [operand |-> k, position |-> j - uf.core_offsets[k],
                                   dim |-> core_dim_index])]}})
    ELSE DropIgnorable(uf, c, op_ndim, k, j + 1)

(* for (i = 0; i < nop; i++): the result is [ok, core], with the operand   *)
(* that has too few dimensions when ok is FALSE.                           *)
RECURSIVE _validate_num_dims(_, _, _, _)
_validate_num_dims(uf, ops, c, k) ==
    IF k >= uf.nargs THEN [ok |-> TRUE, core |-> c, operand |-> -1]
    ELSE IF ~ops[k].null /\ PyArray_NDIM(ops[k]) < c.op_core_num_dims[k]
    THEN Once({IF PyArray_NDIM(ops[k]) < c1.op_core_num_dims[k]
               THEN [ok |-> FALSE, core |-> c1, operand |-> k]
               ELSE _validate_num_dims(uf, ops, c1, k + 1) :
               c1 \in {DropIgnorable(uf, c, PyArray_NDIM(ops[k]), k, uf.core_offsets[k])}})
    ELSE _validate_num_dims(uf, ops, c, k + 1)

GUF_ValidateNumDims ==
    /\ pc = "guf_validate"
    /\ LET r == _validate_num_dims(ufunc, op, core, 0)
       IN  /\ core' = r.core
           /\ IF r.ok
              THEN pc' = "guf_sizes" /\ UNCHANGED <<ret, err, i>>
              ELSE pc' = "done" /\ ret' = "NULL" /\ i' = r.operand
                   /\ err' = "operand does not have enough dimensions"
    /\ UNCHANGED <<operation, arr, ind, out, otype, mem, op, iter, calls>>
    /\ UNCHANGED <<ufunc, call, initial>>

(***************************************************************************)
(* _get_coredim_sizes (no axes remapping: REMAP_AXIS is the identity)      *)
(***************************************************************************)
CoreDimMatches_SizeOneBroadcasts(op_dim_size, core_dim_size) ==
    op_dim_size = core_dim_size \/ op_dim_size = 1

CoreDimMatches(op_dim_size, core_dim_size) == op_dim_size = core_dim_size

(* for (idim = 0; idim < ufunc->core_num_dims[i]; ++idim), operand k. *)
RECURSIVE OperandCoreDims(_, _, _, _, _, _)
OperandCoreDims(uf, ops, c, k, idim, dim_delta) ==
    IF idim >= uf.core_num_dims[k] THEN [ok |-> TRUE, core |-> c]
    ELSE LET core_dim_index == uf.core_dim_ixs[uf.core_offsets[k] + idim]
             core_start_dim == PyArray_NDIM(ops[k]) - c.op_core_num_dims[k]
             missing == "MISSING" \in c.core_dim_flags[core_dim_index]
             op_dim_size == IF missing THEN 1
                            ELSE PyArray_DIM(ops[k], core_start_dim + idim - dim_delta)
             delta1 == IF missing THEN dim_delta + 1 ELSE dim_delta
         IN  IF c.core_dim_sizes[core_dim_index] < 0
             THEN Once({OperandCoreDims(uf, ops, c1, k, idim + 1, d1) :
                        c1 \in {[c EXCEPT !.core_dim_sizes[core_dim_index] = op_dim_size]},
                        d1 \in {delta1}})
             ELSE IF ~CoreDimMatches(op_dim_size, c.core_dim_sizes[core_dim_index])
             THEN [ok |-> FALSE, core |-> c]
             ELSE Once({OperandCoreDims(uf, ops, c, k, idim + 1, d1) : d1 \in {delta1}})

RECURSIVE CollectCoreDims(_, _, _, _)
CollectCoreDims(uf, ops, c, k) ==
    IF k >= uf.nin + uf.nout THEN [ok |-> TRUE, core |-> c]
    ELSE IF ops[k].null THEN CollectCoreDims(uf, ops, c, k + 1)
    ELSE Once({IF r.ok THEN Once({CollectCoreDims(uf, ops, c1, k + 1) : c1 \in {r.core}})
               ELSE r :
               r \in {OperandCoreDims(uf, ops, c, k, 0, 0)}})

_get_coredim_sizes(uf, ops, c) ==
    LET r == Once({CollectCoreDims(uf, ops, c1, 0) : c1 \in {c}})
    IN  IF ~r.ok THEN [core |-> r.core, error |-> "mismatch in its core dimension"]
        ELSE IF \E k \in uf.nin..(uf.nin + uf.nout - 1) :
                   \E idim \in 0..(uf.core_num_dims[k] - 1) :
                      r.core.core_dim_sizes[uf.core_dim_ixs[uf.core_offsets[k] + idim]] < 0
        THEN [core |-> r.core, error |-> "core dimension unspecified"]
        ELSE [core |-> r.core, error |-> "NULL"]

GUF_GetCoredimSizes ==
    /\ pc = "guf_sizes"
    /\ LET r == _get_coredim_sizes(ufunc, op, core)
       IN  /\ core' = r.core
           /\ IF r.error = "NULL"
              THEN pc' = "guf_iter" /\ UNCHANGED <<ret, err>>
              ELSE pc' = "done" /\ ret' = "NULL" /\ err' = r.error
    /\ UNCHANGED <<operation, arr, ind, out, otype, mem, op, iter, i, calls>>
    /\ UNCHANGED <<ufunc, call, initial>>

(***************************************************************************)
(* The iterator of the generalized loop.  NpyIter is not part of this      *)
(* file: broadcasting follows its documented rules (axes are aligned at    *)
(* the end, extent 1 stretches, an operand flagged NO_BROADCAST may not be *)
(* stretched), and without buffering the external loop hands over the      *)
(* innermost axis one row at a time.                                       *)
(***************************************************************************)
RECURSIVE PyArray_MultiplyList(_)
PyArray_MultiplyList(l) == IF l = << >> THEN 1 ELSE Head(l) * PyArray_MultiplyList(Tail(l))

Broadcast(shapes) ==
    LET nd == CHOOSE n \in {Len(s) : s \in shapes} : \A s \in shapes : Len(s) <= n
        ext(p) == {s[Len(s) - nd + p] : s \in {t \in shapes : Len(t) - nd + p >= 1}} \ {1}
    IN  [ok |-> \A p \in 1..nd : Cardinality(ext(p)) <= 1,
         shape |-> [p \in 1..nd |-> IF Cardinality(ext(p)) = 1
                                    THEN CHOOSE e \in ext(p) : TRUE ELSE 1]]

NotStretched(s, shape) ==
    /\ Len(s) <= Len(shape)
    /\ \A p \in 1..Len(shape) :
          shape[p] = IF Len(s) - Len(shape) + p >= 1 THEN s[Len(s) - Len(shape) + p] ELSE 1

(* The sizes of the core dimensions of operand k that are present. *)
PresentCoreDims(uf, c, k) ==
    LET ixs == [p \in 1..uf.core_num_dims[k] |-> uf.core_dim_ixs[uf.core_offsets[k] + p - 1]]
        kept == SelectSeq(ixs, LAMBDA d : "MISSING" \notin c.core_dim_flags[d])
    IN  [p \in 1..Len(kept) |-> c.core_dim_sizes[kept[p]]]

GUF_CreateIterator ==
    /\ pc = "guf_iter"
    /\ LET given == {k \in DOMAIN op : ~op[k].null}
           LoopDims(k) == SubSeq(op[k].shape, 1, PyArray_NDIM(op[k]) - core.op_core_num_dims[k])
           b == Broadcast({LoopDims(k) : k \in given})
       IN  \E failure \in {"none", "TypeError"} :
              IF failure # "none"
              THEN /\ pc' = "done" /\ ret' = "NULL" /\ err' = failure
                   /\ UNCHANGED <<op, iter>>
              ELSE IF ~b.ok \/ \E k \in given : k >= ufunc.nin /\ ~NotStretched(LoopDims(k), b.shape)
              THEN /\ pc' = "done" /\ ret' = "NULL"
                   /\ err' = "operands could not be broadcast together"
                   /\ UNCHANGED <<op, iter>>
              ELSE /\ op' = [k \in DOMAIN op |->
                               IF op[k].null
                               THEN [null |-> FALSE,
                                     shape |-> b.shape \o PresentCoreDims(ufunc, core, k)]
                               ELSE op[k]]
                   /\ iter' = [state |-> "external_loop", row |-> 0,
                               writeback |-> "NULL", shape |-> b.shape]
                   /\ pc' = "guf_loop"
                   /\ UNCHANGED <<ret, err>>
    /\ UNCHANGED <<operation, arr, ind, out, otype, mem, i, calls>>
    /\ UNCHANGED frontVars

(* One kernel call per row of the iteration, each over the innermost axis. *)
LoopCalls(shape) ==
    LET size == PyArray_MultiplyList(shape)
        count == IF shape = << >> THEN 1 ELSE shape[Len(shape)]
    IN  IF size # 0
        THEN {[row |-> r, seg |-> 0, first |-> 0, step |-> 1, count |-> count] :
                 r \in 0..((size \div count) - 1)}
        ELSE {}

GUF_InnerLoop ==
    /\ pc = "guf_loop"
    /\ calls' = calls \cup LoopCalls(iter.shape)
    /\ \E fperr \in BOOLEAN :
          IF fperr
          THEN ret' = "NULL" /\ err' = "FloatingPointError"
          ELSE ret' = "0" /\ err' = err
    /\ iter' = [iter EXCEPT !.state = "deallocated"]
    /\ pc' = "done"
    /\ UNCHANGED <<operation, arr, ind, out, otype, mem, op, i>>
    /\ UNCHANGED frontVars

GufuncNext ==
    \/ GUF_InitializeVariableParts
    \/ GUF_ValidateNumDims
    \/ GUF_GetCoredimSizes
    \/ GUF_CreateIterator
    \/ GUF_InnerLoop

SpecGufunc == GufuncInit /\ [][GufuncNext]_vars

(***************************************************************************)
(* Properties of the generalized call.                                     *)
(***************************************************************************)
DimAt(k, p) == ufunc.core_dim_ixs[ufunc.core_offsets[k] + p]
Positions(k) == 0..(ufunc.core_num_dims[k] - 1)
Given == {k \in DOMAIN op : ~op[k].null}
Rank(k) == Len(op[k].shape)
Dims == 0..(ufunc.core_num_dim_ix - 1)
Ignorable(d) == "CAN_IGNORE" \in ufunc.core_dim_flags[d]
Fixed(d) == "SIZE_INFERRED" \notin ufunc.core_dim_flags[d]
Missing(d) == "MISSING" \in core.core_dim_flags[d]
DroppedDims == {core.dropped[n].dim : n \in DOMAIN core.dropped}

(* The extent operand k has for the core dimension at position p of its    *)
(* declaration, counting the dimensions that are present from the end.     *)
Extent(k, p) ==
    op[k].shape[Rank(k) - Cardinality({q \in Positions(k) : q >= p /\ ~Missing(DimAt(k, q))}) + 1]

Mentions == {m \in Given \X (0..MaxSigDims) : m[2] \in Positions(m[1]) /\ ~Missing(DimAt(m[1], m[2]))}

Disagreement ==
    \/ \E m1 \in Mentions : \E m2 \in Mentions :
          /\ DimAt(m1[1], m1[2]) = DimAt(m2[1], m2[2])
          /\ Extent(m1[1], m1[2]) # Extent(m2[1], m2[2])
    \/ \E m \in Mentions :
          /\ Fixed(DimAt(m[1], m[2]))
          /\ Extent(m[1], m[2]) # ufunc.core_dim_sizes[DimAt(m[1], m[2])]
    \/ \E d \in Dims : Fixed(d) /\ Missing(d) /\ ufunc.core_dim_sizes[d] # 1

UnresolvedOutput ==
    \E k \in ufunc.nin..(ufunc.nargs - 1) : \E p \in Positions(k) :
       /\ ~Fixed(DimAt(k, p))
       /\ \A k1 \in Given : \A p1 \in Positions(k1) : DimAt(k1, p1) # DimAt(k, p)

Validated == operation = "gufunc" /\ pc = "guf_sizes"
NotEnoughDimensions ==
    operation = "gufunc" /\ pc = "done" /\ err = "operand does not have enough dimensions"
CoreSizesCollected == operation = "gufunc" /\ pc = "guf_iter"
CoreSizeMismatch ==
    operation = "gufunc" /\ pc = "done" /\ err = "mismatch in its core dimension"
CoreSizeUnspecified ==
    operation = "gufunc" /\ pc = "done" /\ err = "core dimension unspecified"

(***************************************************************************)
(* C8: core-dimension size agreement.  When _get_coredim_sizes succeeds    *)
(* every core dimension has a size >= 0, a fixed dimension has its literal *)
(* size, and every operand that was supplied has exactly that extent for   *)
(* every mention of the dimension (an extent of 1 is not stretched).  It   *)
(* fails with the mismatch error only when two mentions disagree, a        *)
(* mention disagrees with the literal, or a fixed-size dimension other     *)
(* than 1 was dropped; it fails with the unspecified error exactly when    *)
(* the mentions agree and an output dimension is named by no operand that  *)
(* was supplied.                                                           *)
(***************************************************************************)
C8_CoreDimSizeAgreement ==
    /\ CoreSizesCollected =>
          /\ \A d \in Dims : core.core_dim_sizes[d] >= 0
          /\ \A d \in Dims : Fixed(d) => core.core_dim_sizes[d] = ufunc.core_dim_sizes[d]
          /\ \A m \in Mentions : Extent(m[1], m[2]) = core.core_dim_sizes[DimAt(m[1], m[2])]
          /\ ~Disagreement
          /\ ~UnresolvedOutput
    /\ CoreSizeMismatch => Disagreement
    /\ CoreSizeUnspecified => UnresolvedOutput /\ ~Disagreement

InnerSignature == <<"(", "i", ")", ",", "(", "i", ")", "-", ">", "(", ")">>

C8_Witness ==
    /\ CoreSizeMismatch
    /\ call.signature = InnerSignature
    /\ op[0].shape = <<2, 1>>
    /\ op[1].shape = <<2, 2>>
    /\ core.core_dim_sizes[0] = 1

(***************************************************************************)
(* C9: dropping of ignorable dimensions by _validate_num_dims.  Whether it *)
(* succeeds or fails: no dimension is dropped twice; a dropped dimension   *)
(* is marked missing and no longer ignorable and no other flag changes;    *)
(* the count of every operand is its declared count less one for every     *)
(* occurrence of a dropped dimension in it; every drop is of a dimension   *)
(* the signature marks ignorable, at a position of a supplied operand      *)
(* whose rank differed from its count, coming after the drops at earlier   *)
(* operands and positions and skipping no dimension that could still be    *)
(* ignored; nothing more is dropped from an operand once its count equals  *)
(* its rank; and nothing is dropped when no operand is short.  On success  *)
(* every supplied operand has rank >= count; on failure the reported       *)
(* operand has rank < count and nothing left to drop.                      *)
(***************************************************************************)
CountBefore(n) ==
    ufunc.core_num_dims[core.dropped[n].operand]
    - Cardinality({p \in Positions(core.dropped[n].operand) :
                      \E m \in 1..(n - 1) :
                         core.dropped[m].dim = DimAt(core.dropped[n].operand, p)})

C9_IgnorableDimensionDropping ==
    (Validated \/ NotEnoughDimensions) =>
       /\ \A m \in DOMAIN core.dropped : \A n \in DOMAIN core.dropped :
             m # n => core.dropped[m].dim # core.dropped[n].dim
       /\ \A d \in Dims :
             core.core_dim_flags[d] =
                IF d \in DroppedDims
                THEN (ufunc.core_dim_flags[d] \cup {"MISSING"}) \ {"CAN_IGNORE"}
                ELSE ufunc.core_dim_flags[d]
       /\ \A k \in DOMAIN op :
             core.op_core_num_dims[k] =
                ufunc.core_num_dims[k]
                - Cardinality({p \in Positions(k) : DimAt(k, p) \in DroppedDims})
       /\ \A n \in DOMAIN core.dropped :
             LET r == core.dropped[n]
             IN  /\ r.operand \in Given
                 /\ r.position \in Positions(r.operand)
                 /\ r.dim = DimAt(r.operand, r.position)
                 /\ Ignorable(r.dim)
                 /\ Rank(r.operand) # CountBefore(n)
                 /\ \A m \in 1..(n - 1) :
                       \/ core.dropped[m].operand < r.operand
                       \/ /\ core.dropped[m].operand = r.operand
                          /\ core.dropped[m].position < r.position
                 /\ \A p \in 0..(r.position - 1) :
                       \/ ~Ignorable(DimAt(r.operand, p))
                       \/ \E m \in 1..(n - 1) : core.dropped[m].dim = DimAt(r.operand, p)
       /\ (\A k \in Given : Rank(k) >= ufunc.core_num_dims[k]) => core.dropped = << >>
       /\ Validated => \A k \in Given : Rank(k) >= core.op_core_num_dims[k]
       /\ NotEnoughDimensions =>
             /\ i \in Given
             /\ Rank(i) < core.op_core_num_dims[i]
             /\ \A p \in Positions(i) : "CAN_IGNORE" \notin core.core_dim_flags[DimAt(i, p)]
             /\ \A k \in Given : k < i => Rank(k) >= core.op_core_num_dims[k]

RepeatedSignature ==
    <<"(", "i", "?", ",", "i", "?", ",", "j", "?", ")", "-", ">", "(", "j", "?", ")">>

C9_Witness ==
    /\ Validated
    /\ call.signature = RepeatedSignature
    /\ op[0].shape = <<2>>
    /\ op[1].null
    /\ Len(core.dropped) = 1
    /\ core.op_core_num_dims[0] = 1
    /\ core.op_core_num_dims[1] = 1
    /\ core.core_dim_flags[0] = {"SIZE_INFERRED", "MISSING"}

(***************************************************************************)
(* Elementwise calls: PyUFunc_GenericFunctionInternal and the loops it     *)
(* hands over to.  The ufunc is binary with one output; op[0], op[1] are   *)
(* the inputs, op[2] the output (null when none was passed) and            *)
(* call.wheremask the where= array.  What the code asks of the arrays'     *)
(* memory (alignment, dtype, layout, overlap) is not part of a shape and   *)
(* is chosen at the place where the code asks.                             *)
(***************************************************************************)
Like(shape) == [null |-> FALSE, shape |-> shape]

ElementwiseInit ==
    /\ operation = "call"
    /\ ufunc = UFuncObject("add", 2, 1, "PyUFunc_Zero")
    /\ \E a \in Arrays, b \in Arrays :
          \E o \in {NullArray, a, b, Like(<< >>)} :
             \E w \in {NullArray, a, Like(<< >>)} :
                /\ op = [k \in 0..2 |-> IF k = 0 THEN a ELSE IF k = 1 THEN b ELSE o]
                /\ call = [wheremask |-> w, trivial_loop_ok |-> 0]
    /\ core = "NULL"
    /\ initial = "NULL"
    /\ arr = [ndim |-> 0, rows |-> 0, len |-> 0]
    /\ ind = << >>
    /\ out = "NULL"
    /\ otype = "NULL"
    /\ mem = [b \in Buffers |-> NoBuffer]
    /\ iter = NoIter
    /\ i = 0
    /\ pc = "ew_start"
    /\ ret = ""
    /\ err = "none"
    /\ calls = {}

EW_Fail(e) ==
    /\ pc' = "done"
    /\ ret' = "-1"
    /\ err' = e

(* _get_bufsize_errmask, then the where= branch or check_for_trivial_loop. *)
EW_GenericFunctionInternal ==
    /\ pc = "ew_start"
    /\ \E bufsize_ok \in BOOLEAN, trivial_loop_ok \in {-1, 0, 1} :
          IF ~bufsize_ok THEN EW_Fail("extobj") /\ UNCHANGED call
          ELSE IF ~call.wheremask.null
          THEN pc' = "ew_fancy" /\ UNCHANGED <<ret, err, call>>
          ELSE IF trivial_loop_ok < 0
          THEN EW_Fail("MemoryError") /\ UNCHANGED call
          ELSE /\ pc' = "ew_legacy"
               /\ call' = [call EXCEPT !.trivial_loop_ok = trivial_loop_ok]
               /\ UNCHANGED <<ret, err>>
    /\ UNCHANGED <<operation, arr, ind, out, otype, mem, op, iter, i, calls>>
    /\ UNCHANGED <<ufunc, initial, core>>

(* The result is -2 when the fast path does not apply, -1 on error and 0   *)
(* when the kernel has been called, with the output and the count.         *)
try_trivial_single_output_loop(uf, ops, layout_ok, overlap_ok, alloc_ok, prep_ok) ==
    LET nin == uf.nin
        shaped == {k \in 0..nin : ~ops[k].null /\ PyArray_NDIM(ops[k]) # 0}
        first == CHOOSE k \in shaped : \A k1 \in shaped : k <= k1
        operation_shape == IF shaped = {} THEN << >> ELSE ops[first].shape
        count == PyArray_MultiplyList(operation_shape)
        none == [result |-> -2, out |-> ops[nin], count |-> -1]
    IN  IF \E k \in shaped : ops[k].shape # operation_shape THEN none
        ELSE IF Len(operation_shape) > 1 /\ ~layout_ok THEN none
        ELSE IF ops[nin].null /\ ~alloc_ok THEN [none EXCEPT !.result = -1]
        ELSE IF ~ops[nin].null
                /\ (~overlap_ok \/ \E k \in 0..(nin - 1) : ops[k].shape # ops[nin].shape)
        THEN none
        ELSE LET o == IF ops[nin].null THEN Like(operation_shape) ELSE ops[nin]
             IN  IF ~prep_ok THEN [result |-> -1, out |-> o, count |-> -1]
                 ELSE [result |-> 0, out |-> o, count |-> count]

(* execute_legacy_ufunc_loop up to the hand-over to iterator_loop. *)
EW_ExecuteLegacyLoop ==
    /\ pc = "ew_legacy"
    /\ \E selector_ok \in BOOLEAN, layout_ok \in BOOLEAN, overlap_ok \in BOOLEAN,
          alloc_ok \in BOOLEAN, prep_ok \in BOOLEAN :
          LET r == try_trivial_single_output_loop(ufunc, op, layout_ok, overlap_ok,
                                                  alloc_ok, prep_ok)
          IN  IF ~selector_ok THEN EW_Fail("TypeError") /\ UNCHANGED <<op, calls>>
              ELSE IF call.trivial_loop_ok = 1 /\ ufunc.nout = 1 /\ r.result # -2
              THEN IF r.result = -1
                   THEN EW_Fail("prepare") /\ op' = [op EXCEPT ![ufunc.nin] = r.out]
                        /\ UNCHANGED calls
                   ELSE /\ op' = [op EXCEPT ![ufunc.nin] = r.out]
                        /\ calls' = calls \cup {[row |-> 0, seg |-> 0, first |-> 0,
                                                   step |-> 1, count |-> r.count]}
                        /\ pc' = "ew_check"
                        /\ UNCHANGED <<ret, err>>
              ELSE pc' = "ew_iterator" /\ UNCHANGED <<op, calls, ret, err>>
    /\ UNCHANGED <<operation, arr, ind, out, otype, mem, iter, i>>
    /\ UNCHANGED frontVars

(* The buffered iterator of the elementwise loops: every operand given is  *)
(* broadcast, an output may not be stretched, a missing output is          *)
(* allocated with the broadcast shape.                                     *)
ElementwiseIterator(ops, extra) ==
    LET given == {k \in DOMAIN ops : ~ops[k].null}
        b == Broadcast({ops[k].shape : k \in given} \cup extra)
    IN  [ok |-> b.ok /\ \A k \in given : k >= 2 => NotStretched(ops[k].shape, b.shape),
         shape |-> b.shape,
         op |-> [k \in DOMAIN ops |-> IF ops[k].null THEN Like(b.shape) ELSE ops[k]]]

(* The blocks the buffered external loop hands over: a first block of c0   *)
(* elements and, when that is not all, the rest.                           *)
BlockCalls(size, c0) ==
    {[row |-> 0, seg |-> 0, first |-> 0, step |-> 1, count |-> c0]}
    \cup (IF c0 < size
          THEN {[row |-> 1, seg |-> 0, first |-> c0, step |-> 1, count |-> size - c0]}
          ELSE {})

SkipLoop_Never(full_size) == FALSE
SkipLoop(full_size) == full_size = 0

iterator_loop ==
    /\ pc = "ew_iterator"
    /\ \E prep_ok \in BOOLEAN, dealloc_ok \in BOOLEAN :
          LET it == ElementwiseIterator(op, {})
              full_size == PyArray_MultiplyList(it.shape)
          IN  IF ~prep_ok THEN EW_Fail("prepare") /\ UNCHANGED <<op, iter, calls>>
              ELSE IF ~it.ok
              THEN EW_Fail("operands could not be broadcast together")
                   /\ UNCHANGED <<op, iter, calls>>
              ELSE /\ op' = it.op
                   /\ iter' = [state |-> IF dealloc_ok THEN "deallocated" ELSE "failed",
                               row |-> 0, writeback |-> "NULL", shape |-> it.shape]
                   /\ IF SkipLoop(full_size)
                      THEN calls' = calls
                      ELSE \E c0 \in {1, full_size} :
                              calls' = calls \cup BlockCalls(full_size, c0)
                   /\ IF dealloc_ok
                      THEN pc' = "ew_check" /\ UNCHANGED <<ret, err>>
                      ELSE EW_Fail("DeallocError")
    /\ UNCHANGED <<operation, arr, ind, out, otype, mem, i>>
    /\ UNCHANGED frontVars

execute_fancy_ufunc_loop ==
    /\ pc = "ew_fancy"
    /\ \E prep_ok \in BOOLEAN, selector_ok \in BOOLEAN, dealloc_ok \in BOOLEAN :
          LET it == ElementwiseIterator(op, {call.wheremask.shape})
              size == PyArray_MultiplyList(it.shape)
          IN  IF ~it.ok
              THEN EW_Fail("operands could not be broadcast together")
                   /\ UNCHANGED <<op, iter, calls>>
              ELSE IF ~prep_ok
              THEN EW_Fail("prepare") /\ op' = it.op /\ UNCHANGED <<iter, calls>>
              ELSE IF size # 0 /\ ~selector_ok
              THEN EW_Fail("TypeError") /\ op' = it.op /\ UNCHANGED <<iter, calls>>
              ELSE /\ op' = it.op
                   /\ iter' = [state |-> IF dealloc_ok THEN "deallocated" ELSE "failed",
                               row |-> 0, writeback |-> "NULL", shape |-> it.shape]
                   /\ IF size # 0
                      THEN \E c0 \in {1, size} : calls' = calls \cup BlockCalls(size, c0)
                      ELSE calls' = calls
                   /\ IF dealloc_ok
                      THEN pc' = "ew_check" /\ UNCHANGED <<ret, err>>
                      ELSE EW_Fail("DeallocError")
    /\ UNCHANGED <<operation, arr, ind, out, otype, mem, i>>
    /\ UNCHANGED frontVars

(* PyErr_Occurred() || _check_ufunc_fperr(...) after the loop. *)
EW_CheckErrors ==
    /\ pc = "ew_check"
    /\ \E fperr \in BOOLEAN :
          IF fperr THEN EW_Fail("FloatingPointError")
          ELSE pc' = "done" /\ ret' = "0" /\ err' = err
    /\ UNCHANGED <<operation, arr, ind, out, otype, mem, op, iter, i, calls>>
    /\ UNCHANGED frontVars

ElementwiseNext ==
    \/ EW_GenericFunctionInternal
    \/ EW_ExecuteLegacyLoop
    \/ iterator_loop
    \/ execute_fancy_ufunc_loop
    \/ EW_CheckErrors

(***************************************************************************)
(* ufunc.at(op1, idx, op2): op1 is the one-dimensional buffer "A", idx the *)
(* index sequence ind, op2 the buffer "O" (call.op2 = "NULL" when it was   *)
(* not passed).  The map iterator is not part of this file: it rejects an  *)
(* index outside [-n, n) when it is created and wraps a negative one.      *)
(***************************************************************************)
AtUfuncs ==
    {UFuncObject("add", 2, 1, "PyUFunc_Zero"),
     UFuncObject("negative", 1, 1, "PyUFunc_None"),
     UFuncObject("divmod", 2, 2, "PyUFunc_None"),
     UFuncObject("clip", 3, 1, "PyUFunc_None")}

AtInit ==
    /\ operation = "at"
    /\ ufunc \in AtUfuncs
    /\ arr \in {[ndim |-> 1, rows |-> 1, len |-> n] : n \in 0..MaxAxis}
    /\ ind \in IndexSeqs(arr.len)
    /\ \E op2 \in {"NULL", "O"}, len2 \in {0, 1, ind_size} :
          /\ op2 = "NULL" => len2 = 0
          /\ ufunc.nin = 1 => op2 = "NULL"
          /\ call = [op2 |-> op2, needs_api |-> FALSE, err_msg |-> "NULL",
                     override |-> "unchecked"]
          /\ mem = [b \in Buffers |->
                      IF b = "A" THEN Filled(1, arr.len, "input")
                      ELSE IF b = "O" /\ op2 = "O" THEN Filled(1, len2, "junk")
                      ELSE NoBuffer]
    /\ core = "NULL"
    /\ initial = "NULL"
    /\ out = "NULL"
    /\ otype = "NULL"
    /\ op = <<"NULL", "NULL">>
    /\ iter = NoIter
    /\ i = 0
    /\ pc = "at_start"
    /\ ret = ""
    /\ err = "none"
    /\ calls = {}

AT_Fail(e) ==
    /\ pc' = "done"
    /\ ret' = "NULL"
    /\ err' = e

AT_CheckArguments ==
    /\ pc = "at_start"
    /\ \E parse_ok \in BOOLEAN, override \in {"none", "error", "override"},
          is_array \in BOOLEAN :
          IF ufunc.nin > 2
          THEN AT_Fail("ValueError: only unary and binary") /\ call' = call
          ELSE IF ufunc.nout # 1
          THEN AT_Fail("ValueError: only single output") /\ call' = call
          ELSE IF ~parse_ok THEN AT_Fail("TypeError") /\ call' = call
          ELSE IF ufunc.nin = 2 /\ call.op2 = "NULL"
          THEN AT_Fail("ValueError: second operand needed") /\ call' = call
          ELSE /\ call' = [call EXCEPT !.override = override]
               /\ IF override = "error" THEN AT_Fail("override")
                  ELSE IF override = "override"
                  THEN pc' = "done" /\ ret' = "override" /\ err' = err
                  ELSE IF ~is_array
                  THEN AT_Fail("TypeError: first operand must be array")
                  ELSE pc' = "at_setup" /\ UNCHANGED <<ret, err>>
    /\ UNCHANGED <<operation, arr, ind, out, otype, mem, op, iter, i, calls>>
    /\ UNCHANGED <<ufunc, initial, core>>

MapIndexInBounds(idx, n) == idx >= -n /\ idx < n
MapIndex(idx, n) == IF idx < 0 THEN idx + n ELSE idx

(* From the conversion of op2 to iternext of the buffering iterator. *)
AT_Setup ==
    /\ pc = "at_setup"
    /\ \E setup_ok \in BOOLEAN, needs_api \in BOOLEAN :
          IF \E k \in DOMAIN ind : ~MapIndexInBounds(ind[k], arr.len)
          THEN AT_Fail("IndexError") /\ UNCHANGED <<i, call, op>>
          ELSE IF call.op2 # "NULL" /\ mem["O"].len # 1 /\ mem["O"].len # ind_size
          THEN AT_Fail("ValueError: cannot broadcast") /\ UNCHANGED <<i, call, op>>
          ELSE IF ~setup_ok THEN AT_Fail("TypeError") /\ UNCHANGED <<i, call, op>>
          ELSE /\ i' = ind_size
               /\ call' = [call EXCEPT !.needs_api = needs_api]
               /\ op' = <<"A", call.op2>>
               /\ pc' = IF ind_size > 0 THEN "at_loop" ELSE "at_finish"
               /\ UNCHANGED <<ret, err>>
    /\ UNCHANGED <<operation, arr, ind, out, otype, mem, iter, calls>>
    /\ UNCHANGED <<ufunc, initial, core>>

AT_Step_ReadsOriginal ==
    /\ pc = "at_loop"
    /\ i > 0
    /\ \E reset_ok \in BOOLEAN, kernel_error \in BOOLEAN :
          LET k == ind_size - i
              at == <<"A", 0, MapIndex(ind[k], arr.len)>>
              other == IF op[2] = "NULL" THEN OutOfBounds
                       ELSE Load(mem, <<"O", 0, IF mem["O"].len = 1 THEN 0 ELSE k>>)
          IN  IF ~reset_ok
              THEN /\ call' = [call EXCEPT !.err_msg = "Iterator reset failed"]
                   /\ pc' = "at_finish"
                   /\ UNCHANGED <<mem, calls, i, err>>
              ELSE /\ mem' = Store(mem, at, InnerOp(Atom(0, at[3]), other))
                   /\ calls' = calls \cup {[row |-> 0, seg |-> k, first |-> at[3],
                                            step |-> 0, count |-> 1]}
                   /\ IF call.needs_api /\ kernel_error
                      THEN pc' = "at_finish" /\ err' = "kernel" /\ UNCHANGED <<i, call>>
                      ELSE /\ i' = i - 1
                           /\ pc' = IF i - 1 > 0 THEN "at_loop" ELSE "at_finish"
                           /\ UNCHANGED <<call, err>>
    /\ UNCHANGED <<operation, arr, ind, out, otype, op, iter, ret>>
    /\ UNCHANGED <<ufunc, initial, core>>

(* One pass of while (i > 0): one kernel call on one element. *)
AT_Step ==
    /\ pc = "at_loop"
    /\ i > 0
    /\ \E reset_ok \in BOOLEAN, kernel_error \in BOOLEAN :
          LET k == ind_size - i
              at == <<"A", 0, MapIndex(ind[k], arr.len)>>
              other == IF op[2] = "NULL" THEN OutOfBounds
                       ELSE Load(mem, <<"O", 0, IF mem["O"].len = 1 THEN 0 ELSE k>>)
          IN  IF ~reset_ok
              THEN /\ call' = [call EXCEPT !.err_msg = "Iterator reset failed"]
                   /\ pc' = "at_finish"
                   /\ UNCHANGED <<mem, calls, i, err>>
              ELSE /\ mem' = Store(mem, at, InnerOp(Load(mem, at), other))
                   /\ calls' = calls \cup {[row |-> 0, seg |-> k, first |-> at[3],
                                            step |-> 0, count |-> 1]}
                   /\ IF call.needs_api /\ kernel_error
                      THEN pc' = "at_finish" /\ err' = "kernel" /\ UNCHANGED <<i, call>>
                      ELSE /\ i' = i - 1
                           /\ pc' = IF i - 1 > 0 THEN "at_loop" ELSE "at_finish"
                           /\ UNCHANGED <<call, err>>
    /\ UNCHANGED <<operation, arr, ind, out, otype, op, iter, ret>>
    /\ UNCHANGED <<ufunc, initial, core>>

AT_Finish ==
    /\ pc = "at_finish"
    /\ LET e == IF call.err_msg # "NULL" THEN "ValueError" ELSE err
       IN  /\ err' = e
           /\ ret' = IF call.needs_api /\ e # "none" THEN "NULL" ELSE "None"
    /\ pc' = "done"
    /\ UNCHANGED <<operation, arr, ind, out, otype, mem, op, iter, i, calls>>
    /\ UNCHANGED frontVars

AtNext ==
    \/ AT_CheckArguments
    \/ AT_Setup
    \/ AT_Step
    \/ AT_Finish

(***************************************************************************)
(* Every execution path that ends in a kernel: reduceat, accumulate, the   *)
(* elementwise loops, the generalized loop and at.                         *)
(***************************************************************************)
ZeroSizeInit ==
    \/ ReduceatInit
    \/ AccumulateInit
    \/ ElementwiseInit
    \/ GufuncInit
    \/ AtInit

ZeroSizeNext ==
    \/ ReduceatNext
    \/ AccumulateNext
    \/ ElementwiseNext
    \/ GufuncNext
    \/ AtNext

SpecZeroSize == ZeroSizeInit /\ [][ZeroSizeNext]_vars

(***************************************************************************)
(* Properties of calls on zero-size operands.                              *)
(***************************************************************************)
HasZeroExtent(a) == ~a.null /\ \E p \in DOMAIN a.shape : a.shape[p] = 0

(* Some operand of the call has a dimension of extent 0. *)
ZeroSizeOperand ==
    CASE operation = "reduceat" -> arr.rows * arr.len = 0 \/ ind_size = 0
      [] operation = "accumulate" -> arr.rows * arr.len = 0
      [] operation = "call" ->
            HasZeroExtent(call.wheremask) \/ \E k \in DOMAIN op : HasZeroExtent(op[k])
      [] operation = "gufunc" -> \E k \in DOMAIN op : HasZeroExtent(op[k])
      [] operation = "at" ->
            arr.len = 0 \/ ind_size = 0 \/ (call.op2 # "NULL" /\ mem["O"].len = 0)
      [] OTHER -> FALSE

ReturnedArray ==
    /\ pc = "done"
    /\ IF operation \in {"reduceat", "accumulate"} THEN ret \in Buffers
       ELSE operation \in {"call", "gufunc"} /\ ret = "0"

ResultSize ==
    IF operation \in {"reduceat", "accumulate"} THEN PyArray_SIZE(mem, ret)
    ELSE PyArray_MultiplyList(op[ufunc.nin].shape)

TrivialCall(count) == [row |-> 0, seg |-> 0, first |-> 0, step |-> 1, count |-> count]

MaskedOperand(n, r) ==
    [rows |-> 1, len |-> n,
     data |-> [x \in {0} |-> [c \in 0..(n - 1) |-> Element("input", r, c)]]]

MaskedInit ==
    /\ operation = "where"
    /\ ufunc = UFuncObject("add", 2, 1, "PyUFunc_Zero")
    /\ arr \in {[ndim |-> 1, rows |-> 1, len |-> n] : n \in 0..MaxAxis}
    /\ out \in {"NULL", "O"}
    /\ \E wheremask \in [0..(arr.len - 1) -> BOOLEAN], buffersize \in 1..2 :
          call = [wheremask |-> wheremask, buffersize |-> buffersize,
                  needs_api |-> FALSE]
    /\ mem = [b \in Buffers |->
                IF b = "A" THEN MaskedOperand(arr.len, 0)
                ELSE IF b = "C" THEN MaskedOperand(arr.len, 1)
                ELSE IF b = "O" /\ out = "O" THEN Filled(1, arr.len, "junk")
                ELSE NoBuffer]
    /\ op = <<"A", "C", out>>
    /\ ind = << >>
    /\ otype = "NULL"
    /\ iter = NoIter
    /\ i = 0
    /\ pc = "msk_start"
    /\ ret = ""
    /\ err = "none"
    /\ calls = {}
    /\ initial = "NULL"
    /\ core = "NULL"

(* for (i = nin; i < nop; ++i) op_flags[i] |= ... *)
OutputOpFlag_WriteOnly(operand) == "NPY_ITER_WRITEONLY"

OutputOpFlag(operand) ==
    IF operand # "NULL" THEN "NPY_ITER_READWRITE" ELSE "NPY_ITER_WRITEONLY"

(***************************************************************************)
(* NpyIter_AdvancedNew for the masked loop (ALLOCATE, COPY_IF_OVERLAP,     *)
(* WRITEMASKED output, ARRAYMASK mask).  A missing output is allocated; a  *)
(* supplied one is replaced by a temporary when substitute holds, and the  *)
(* temporary starts as a copy of it only if the operand is read-write.     *)
(***************************************************************************)
MaskedIterator(m, ops, flag, substitute) ==
    IF ops[3] = "NULL"
    THEN [mem |-> [m EXCEPT !["T"] = Filled(1, m["A"].len, "garbage")],
          op_it |-> <<ops[1], ops[2], "T">>, writeback |-> "NULL"]
    ELSE IF substitute
    THEN [mem |-> IF flag = "NPY_ITER_READWRITE" THEN CopyInto(m, "T", ops[3])
                  ELSE [m EXCEPT !["T"] = Filled(1, m[ops[3]].len, "garbage")],
          op_it |-> <<ops[1], ops[2], "T">>, writeback |-> ops[3]]
    ELSE [mem |-> m, op_it |-> ops, writeback |-> "NULL"]

(* The masked strided inner loop on one block: the kernel is applied to    *)
(* the elements whose mask element is true, the others are not touched.    *)
RECURSIVE MaskedInnerLoop(_, _, _, _, _)
MaskedInnerLoop(m, ops, mask, first, count) ==
    IF count <= 0 THEN m
    ELSE Once({MaskedInnerLoop(m1, ops, mask, first + 1, count - 1) :
               m1 \in {IF mask[first]
                       THEN Store(m, <<ops[3], 0, first>>,
                                  InnerOp(Load(m, <<ops[1], 0, first>>),
                                          Load(m, <<ops[2], 0, first>>)))
                       ELSE m}})

(* PyUFunc_GenericFunctionInternal with a wheremask, and                   *)
(* execute_fancy_ufunc_loop up to the start of its loop.                   *)
MSK_ExecuteFancyLoop ==
    /\ pc = "msk_start"
    /\ \E failure \in {"none", "bufsize", "iterator", "prepare", "selector", "iternext"},
          substitute \in BOOLEAN, needs_api \in BOOLEAN :
          LET it == MaskedIterator(mem, op, OutputOpFlag(op[3]), substitute)
              size == mem["A"].len
          IN  IF failure = "bufsize" \/ failure = "iterator" \/ ufunc.nargs + 1 > 32
              THEN /\ pc' = "done" /\ ret' = "-1" /\ err' = failure
                   /\ UNCHANGED <<mem, op, iter, call>>
              ELSE IF failure = "prepare" \/ (size # 0 /\ failure \in {"selector", "iternext"})
              THEN /\ pc' = "done" /\ ret' = "-1" /\ err' = failure
                   /\ mem' = Deallocate(it.mem, [writeback |-> it.writeback], it.op_it[3])
                   /\ iter' = [state |-> "deallocated", row |-> 0, writeback |-> it.writeback]
                   /\ UNCHANGED <<op, call>>
              ELSE /\ mem' = it.mem
                   /\ iter' = [state |-> "external_loop", row |-> 0, writeback |-> it.writeback]
                   /\ op' = IF op[3] = "NULL" THEN it.op_it ELSE op
                   /\ call' = [call EXCEPT !.needs_api = needs_api]
                   /\ pc' = IF size # 0 THEN "msk_loop" ELSE "msk_finish"
                   /\ UNCHANGED <<ret, err>>
    /\ UNCHANGED <<operation, arr, ind, out, otype, i, calls>>
    /\ UNCHANGED <<ufunc, initial, core>>

(* One pass of do { innerloop(...) } while (!(needs_api && PyErr_Occurred()) *)
(* && iternext(iter)).                                                     *)
MSK_Block ==
    /\ pc = "msk_loop"
    /\ \E kernel_error \in BOOLEAN :
          LET count == IF iter.row + call.buffersize <= mem["A"].len
                       THEN call.buffersize ELSE mem["A"].len - iter.row
              op_it == <<op[1], op[2], IF iter.writeback # "NULL" THEN "T" ELSE op[3]>>
          IN  /\ mem' = MaskedInnerLoop(mem, op_it, call.wheremask, iter.row, count)
              /\ calls' = calls \cup {[row |-> 0, seg |-> 0, first |-> iter.row,
                                       step |-> 1, count |-> count]}
              /\ IF call.needs_api /\ kernel_error
                 THEN pc' = "msk_finish" /\ err' = "kernel" /\ iter' = iter
                 ELSE /\ iter' = [iter EXCEPT !.row = iter.row + count]
                      /\ pc' = IF iter.row + count < mem["A"].len
                               THEN "msk_loop" ELSE "msk_finish"
                      /\ err' = err
    /\ UNCHANGED <<operation, arr, ind, out, otype, op, i, ret>>
    /\ UNCHANGED frontVars

(* return NpyIter_Deallocate(iter), and the checks that follow the loop in *)
(* PyUFunc_GenericFunctionInternal.                                        *)
MSK_Finish ==
    /\ pc = "msk_finish"
    /\ \E dealloc_ok \in BOOLEAN, fperr \in BOOLEAN :
          /\ mem' = IF dealloc_ok
                    THEN Deallocate(mem, iter, "T")
                    ELSE mem
          /\ IF ~dealloc_ok THEN ret' = "-1" /\ err' = "DeallocError"
             ELSE IF err # "none" THEN ret' = "-1" /\ err' = err
             ELSE IF fperr THEN ret' = "-1" /\ err' = "FloatingPointError"
             ELSE ret' = "0" /\ err' = err
    /\ iter' = [iter EXCEPT !.state = "deallocated"]
    /\ pc' = "done"
    /\ UNCHANGED <<operation, arr, ind, out, otype, op, i, calls>>
    /\ UNCHANGED frontVars

MaskedNext ==
    \/ MSK_ExecuteFancyLoop
    \/ MSK_Block
    \/ MSK_Finish

SpecMasked == MaskedInit /\ [][MaskedNext]_vars

\* C12: masked elementwise execution.  After a successful call
\* op(a, b, out=c, where=mask) every element of c whose mask element is false
\* holds the value it held before the call and every element whose mask
\* element is true holds op(a[i], b[i]), whether the loop wrote into c itself
\* or into a temporary that the iterator substituted and wrote back.
C12_MaskedExecution ==
    (operation = "where" /\ pc = "done" /\ ret = "0" /\ out = "O") =>
       \A x \in 0..(arr.len - 1) :
          Load(mem, <<"O", 0, x>>) =
             IF call.wheremask[x]
             THEN InnerOp(Element("input", 0, x), Element("input", 1, x))
             ELSE Element("junk", 0, x)

C12_Witness ==
    /\ operation = "where"
    /\ pc = "done"
    /\ ret = "0"
    /\ out = "O"
    /\ iter.writeback = "O"
    /\ arr.len = 3
    /\ call.wheremask = [x \in 0..2 |-> x # 1]
    /\ call.buffersize = 2
    /\ Load(mem, <<"O", 0, 1>>) = Element("junk", 0, 1)
    /\ Load(mem, <<"O", 0, 2>>) = InnerOp(Element("input", 0, 2), Element("input", 1, 2))

(***************************************************************************)
(* Properties of at                                                        *)
(***************************************************************************)
SpecAt == AtInit /\ [][AtNext]_vars

AtPosition(k) == IF ind[k] < 0 THEN ind[k] + arr.len ELSE ind[k]

AtSecondOperand(k) ==
    IF call.op2 = "NULL" THEN OutOfBounds
    ELSE Element("junk", 0, IF mem["O"].len = 1 THEN 0 ELSE k)

(* The element at position x after the first n index positions. *)
RECURSIVE AtValue(_, _)
AtValue(x, n) ==
    IF n = 0 THEN Atom(0, x)
    ELSE IF AtPosition(n - 1) = x
    THEN InnerOp(Once({AtValue(x, m) : m \in {n - 1}}), AtSecondOperand(n - 1))
    ELSE AtValue(x, n - 1)

\* C13: at does not deduplicate.  While no error has occurred, after the loop
\* has passed n index positions the kernel has been called exactly n times,
\* once for each of these positions, on one element; every element of the
\* first operand holds the result of applying the kernel, in index order, once
\* for each position that names it, each application taking the value the
\* earlier ones left; an element no index names holds its original value.
\* When at returns without error all ind_size positions have been passed.
C13_AtDoesNotDeduplicate ==
    (operation = "at" /\ op[1] = "A" /\ err = "none"
        /\ pc \in {"at_loop", "at_finish", "done"}) =>
       /\ pc = "done" /\ call.err_msg = "NULL" => i = 0 /\ ret = "None"
       /\ calls = {[row |-> 0, seg |-> k, first |-> AtPosition(k), step |-> 0, count |-> 1] :
                      k \in 0..(ind_size - i - 1)}
       /\ \A x \in 0..(arr.len - 1) :
             Load(mem, <<"A", 0, x>>) = AtValue(x, ind_size - i)

C13_Witness ==
    /\ operation = "at"
    /\ pc = "done"
    /\ ret = "None"
    /\ err = "none"
    /\ ufunc.name = "add"
    /\ arr.len = 2
    /\ ind = [k \in 0..1 |-> 0]
    /\ mem["O"].len = 2
    /\ Cardinality(calls) = 2
    /\ Load(mem, <<"A", 0, 0>>)
          = InnerOp(InnerOp(Atom(0, 0), Element("junk", 0, 0)), Element("junk", 0, 1))
    /\ Load(mem, <<"A", 0, 1>>) = Atom(0, 1)

(***************************************************************************)
(* The call entry points: ufunc_outer and ufunc_generic_fastcall, down to  *)
(* the hand-over to PyUFunc_GenericFunctionInternal.  call.args are the    *)
(* positional arguments as passed, op the operands[] array (all NULL until *)
(* the arguments are converted).                                           *)
(***************************************************************************)
NPY_MAXDIMS == 32

Ones(n) == [p \in 1..n |-> 1]

CallUfuncs ==
    {UFuncObject("add", 2, 1, "PyUFunc_Zero"),
     UFuncObject("negative", 1, 1, "PyUFunc_None"),
     [UFuncObject("matmul", 2, 1, "PyUFunc_None") EXCEPT !.core_enabled = 1]}

CallInit ==
    /\ operation \in {"call", "outer"}
    /\ ufunc \in CallUfuncs
    /\ operation = "call" => ufunc.name = "add"
    /\ \E a \in Arrays \cup {Like(Ones(NPY_MAXDIMS - 2)), Like(Ones(NPY_MAXDIMS - 1))},
          b \in Arrays, len_args \in 1..3, w \in {NullArray, Like(<< >>)} :
          /\ operation = "call" => len_args = 2 /\ PyArray_NDIM(a) <= 1
          /\ call = [args |-> [k \in 0..1 |-> IF k = 0 THEN a ELSE b],
                     len_args |-> len_args, wheremask |-> w, trivial_loop_ok |-> 0,
                     override |-> "unchecked"]
    /\ op = [k \in 0..(ufunc.nargs - 1) |-> NullArray]
    /\ core = "NULL"
    /\ initial = "NULL"
    /\ arr = [ndim |-> 0, rows |-> 0, len |-> 0]
    /\ ind = << >>
    /\ out = "NULL"
    /\ otype = "NULL"
    /\ mem = [b \in Buffers |-> NoBuffer]
    /\ iter = NoIter
    /\ i = 0
    /\ pc = IF operation = "outer" THEN "outer_start" ELSE "fastcall"
    /\ ret = ""
    /\ err = "none"
    /\ calls = {}

FC_Fail(e) ==
    /\ pc' = "done"
    /\ ret' = "NULL"
    /\ err' = e

ufunc_outer ==
    /\ pc = "outer_start"
    /\ IF ufunc.core_enabled # 0
       THEN FC_Fail("TypeError: method outer is not allowed in ufunc with non-trivial signature")
       ELSE IF ufunc.nin # 2
       THEN FC_Fail("ValueError: outer product only supported for binary functions")
       ELSE IF call.len_args # 2
       THEN FC_Fail("TypeError: exactly two arguments expected")
       ELSE pc' = "fastcall" /\ UNCHANGED <<ret, err>>
    /\ UNCHANGED <<operation, arr, ind, out, otype, mem, op, iter, i, calls>>
    /\ UNCHANGED frontVars

(* ufunc_generic_fastcall: the positional and keyword arguments are taken  *)
(* apart, as objects.                                                      *)
FC_ExtractArguments ==
    /\ pc = "fastcall"
    /\ \E failure \in {"none", "MemoryError", "TypeError"} :
          IF call.len_args < ufunc.nin \/ call.len_args > ufunc.nargs
          THEN FC_Fail("TypeError: positional arguments")
          ELSE IF failure # "none" THEN FC_Fail(failure)
          ELSE pc' = "fc_override" /\ UNCHANGED <<ret, err>>
    /\ UNCHANGED <<operation, arr, ind, out, otype, mem, op, iter, i, calls>>
    /\ UNCHANGED frontVars

FC_CheckOverride_ResultIgnored ==
    /\ pc = "fc_override"
    /\ \E override \in {"none", "error", "override"} :
          /\ call' = [call EXCEPT !.override = override]
          /\ IF override = "error" THEN FC_Fail("override")
             ELSE pc' = "fc_convert" /\ UNCHANGED <<ret, err>>
    /\ UNCHANGED <<operation, arr, ind, out, otype, mem, op, iter, i, calls>>
    /\ UNCHANGED <<ufunc, initial, core>>

FC_CheckOverride ==
    /\ pc = "fc_override"
    /\ \E override \in {"none", "error", "override"} :
          /\ call' = [call EXCEPT !.override = override]
          /\ IF override = "error" THEN FC_Fail("override")
             ELSE IF override = "override"
             THEN pc' = "done" /\ ret' = "override" /\ err' = err
             ELSE pc' = "fc_convert" /\ UNCHANGED <<ret, err>>
    /\ UNCHANGED <<operation, arr, ind, out, otype, mem, op, iter, i, calls>>
    /\ UNCHANGED <<ufunc, initial, core>>

(* The shape prepare_input_arguments_for_outer gives the first operand. *)
OuterNewShape_OnesFirst(ap1, ap2) ==
    [p \in 1..(PyArray_NDIM(ap1) + PyArray_NDIM(ap2)) |->
        IF p <= PyArray_NDIM(ap2) THEN 1 ELSE ap1.shape[p - PyArray_NDIM(ap2)]]

OuterNewShape(ap1, ap2) ==
    [p \in 1..(PyArray_NDIM(ap1) + PyArray_NDIM(ap2)) |->
        IF p <= PyArray_NDIM(ap1) THEN ap1.shape[p] ELSE 1]

prepare_input_arguments_for_outer(args, converted, reshaped) ==
    IF ~converted THEN [ok |-> FALSE, err |-> "conversion"]
    ELSE IF PyArray_NDIM(args[0]) + PyArray_NDIM(args[1]) > NPY_MAXDIMS
    THEN [ok |-> FALSE, err |-> "ValueError: maximum supported dimension"]
    ELSE IF reshaped = "failed" THEN [ok |-> FALSE, err |-> "reshape"]
    ELSE IF reshaped = "other shape"
    THEN [ok |-> FALSE, err |-> "TypeError: modified its shape after a reshape"]
    ELSE [ok |-> TRUE, err |-> "none",
          in |-> [k \in 0..1 |-> IF k = 0 THEN Like(OuterNewShape(args[0], args[1]))
                                  ELSE args[1]]]

(* From the preparation of the inputs of outer to the call of              *)
(* PyUFunc_GenericFunctionInternal.                                        *)
FC_ConvertArguments ==
    /\ pc = "fc_convert"
    /\ \E converted \in BOOLEAN, reshaped \in {"ok", "failed", "other shape"},
          failure \in {"none", "typetup", "convert", "type_resolver"} :
          LET new_in == IF operation = "outer"
                        THEN prepare_input_arguments_for_outer(call.args, converted, reshaped)
                        ELSE [ok |-> TRUE, err |-> "none", in |-> call.args]
          IN  IF ~new_in.ok THEN FC_Fail(new_in.err) /\ op' = op
              ELSE IF failure # "none" THEN FC_Fail(failure) /\ op' = op
              ELSE /\ op' = [k \in 0..(ufunc.nargs - 1) |->
                               IF k < ufunc.nin THEN new_in.in[k] ELSE NullArray]
                   /\ pc' = "ew_start"
                   /\ UNCHANGED <<ret, err>>
    /\ UNCHANGED <<operation, arr, ind, out, otype, mem, iter, i, calls>>
    /\ UNCHANGED frontVars

CallNext ==
    \/ ufunc_outer
    \/ FC_ExtractArguments
    \/ FC_CheckOverride
    \/ FC_ConvertArguments
    \/ ElementwiseNext

SpecCall == CallInit /\ [][CallNext]_vars

(***************************************************************************)
(* Properties of outer.  The indices of an array, the index an operand is  *)
(* read at for a result index under broadcasting, and the position of an   *)
(* index in C order, which a reshape keeps.                                *)
(***************************************************************************)
RECURSIVE Indices(_)
Indices(shape) ==
    IF Len(shape) = 0 THEN {<< >>}
    ELSE {Append(x, e) : x \in Indices(SubSeq(shape, 1, Len(shape) - 1)),
                         e \in 0..(shape[Len(shape)] - 1)}

OperandIndex(x, shape) ==
    [p \in 1..Len(shape) |-> IF shape[p] = 1 THEN 0 ELSE x[Len(x) - Len(shape) + p]]

RECURSIVE FlatIndex(_, _)
FlatIndex(x, shape) ==
    IF Len(shape) = 0 THEN 0
    ELSE FlatIndex(SubSeq(x, 1, Len(x) - 1), SubSeq(shape, 1, Len(shape) - 1))
            * shape[Len(shape)] + x[Len(x)]

OuterRejection ==
    IF ufunc.core_enabled # 0
    THEN "TypeError: method outer is not allowed in ufunc with non-trivial signature"
    ELSE IF ufunc.nin # 2
    THEN "ValueError: outer product only supported for binary functions"
    ELSE IF call.len_args # 2 THEN "TypeError: exactly two arguments expected"
    ELSE "none"

\* C14: outer.  outer is rejected, before anything else is done, for a ufunc
\* with a core signature, for a ufunc that is not binary, and when it is not
\* given exactly two positional arguments.  Otherwise, when rank(a) + rank(b)
\* is within NPY_MAXDIMS, the plain call is made on a reshaped to a.shape
\* followed by rank(b) axes of extent 1 and on b; when it succeeds the result
\* has shape a.shape + b.shape and its element at the index i + j is computed
\* from the element of a at i and the element of b at j.  Beyond NPY_MAXDIMS
\* the call fails and no operand is set.
C14_Outer ==
    (operation = "outer" /\ pc # "outer_start") =>
       LET a == call.args[0]
           b == call.args[1]
       IN  /\ OuterRejection # "none" =>
                pc = "done" /\ ret = "NULL" /\ err = OuterRejection /\ calls = {}
                   /\ call.override = "unchecked"
           /\ (OuterRejection = "none" /\ pc \notin {"fastcall", "fc_override", "fc_convert", "done"}) =>
                 /\ PyArray_NDIM(a) + PyArray_NDIM(b) <= NPY_MAXDIMS
                 /\ op[0].shape = a.shape \o Ones(PyArray_NDIM(b))
                 /\ op[1] = b
           /\ (PyArray_NDIM(a) + PyArray_NDIM(b) > NPY_MAXDIMS /\ pc = "done") =>
                 ret \in {"NULL", "override"} /\ calls = {}
                   /\ \A k \in DOMAIN op : op[k].null
           /\ (pc = "done" /\ ret = "0") =>
                 /\ op[2].shape = a.shape \o b.shape
                 /\ \A x \in Indices(a.shape), y \in Indices(b.shape) :
                       /\ FlatIndex(OperandIndex(x \o y, op[0].shape), op[0].shape)
                             = FlatIndex(x, a.shape)
                       /\ OperandIndex(x \o y, op[1].shape) = y

C14_Witness ==
    /\ operation = "outer"
    /\ pc = "done"
    /\ ret = "0"
    /\ call.args[0].shape = <<2, 2>>
    /\ call.args[1].shape = <<MaxExtent>>
    /\ op[0].shape = <<2, 2, 1>>
    /\ op[2].shape = <<2, 2, MaxExtent>>
    /\ FlatIndex(OperandIndex(<<1, 0, 1>>, op[0].shape), op[0].shape) = 2

(***************************************************************************)
(* The six public entry points: reduce, accumulate and reduceat            *)
(* (PyUFunc_GenericReduction), the call and outer                          *)
(* (ufunc_generic_fastcall) and at (ufunc_at).  call.override is           *)
(* "unchecked" until PyUFunc_CheckOverride has been called and its outcome *)
(* afterwards.                                                             *)
(***************************************************************************)
EntryPointsInit ==
    \/ GenericReductionInit
    \/ CallInit
    \/ AtInit

EntryPointsNext ==
    \/ GenericReductionNext
    \/ CallNext
    \/ AtNext

SpecEntryPoints == EntryPointsInit /\ [][EntryPointsNext]_vars

NothingConverted ==
    /\ calls = {}
    /\ operation \in {"reduce", "accumulate", "reduceat"} =>
          otype = "NULL" /\ initial = "NULL" /\ pc \in {"gr_start", "gr_parse", "done"}
    /\ operation \in {"call", "outer"} =>
          /\ \A k \in DOMAIN op : op[k].null
          /\ iter = NoIter
          /\ pc \in {"outer_start", "fastcall", "fc_override", "done"}
    /\ operation = "at" =>
          /\ op = <<"NULL", "NULL">>
          /\ mem["A"] = Filled(1, arr.len, "input")
          /\ pc \in {"at_start", "done"}

(* The statement as the specification gives it: every call makes the check. *)
C15_Original_CheckedInEveryCall ==
    pc = "done" =>
       /\ call.override # "unchecked"
       /\ call.override = "override" => ret = "override" /\ NothingConverted

(***************************************************************************)
(* C15: override hook ordering.  In each of call, outer, reduce,           *)
(* accumulate, reduceat and at the override check is made at most once,    *)
(* after the entry point has validated the ufunc and taken the argument    *)
(* list apart and before any operand or keyword argument is converted; a   *)
(* call that ends without the check having been made was rejected by that  *)
(* validation.  When the check returns an override result the call returns *)
(* it, and when the check fails the call fails; in both cases no argument  *)
(* is converted, no type is resolved, no output is allocated and no kernel *)
(* is run.                                                                 *)
(***************************************************************************)
C15_OverrideOrdering ==
    /\ [](/\ call.override # "none" => NothingConverted
          /\ call.override = "override" => pc = "done" /\ ret = "override" /\ err = "none"
          /\ call.override = "error" => pc = "done" /\ ret = "NULL"
          /\ (pc = "done" /\ call.override = "unchecked") => ret = "NULL" /\ err # "none")
    /\ [][call.override # "unchecked" => call'.override = call.override]_vars

C15_Witness ==
    /\ operation = "at"
    /\ pc = "done"
    /\ call.override = "override"
    /\ ret = "override"
    /\ ind_size = 2
    /\ calls = {}
    /\ mem["A"] = Filled(1, arr.len, "input")


(***************************************************************************)
(* The kernel loops, one kernel invocation at a time.  call.kind names the *)
(* loop; arr.rows is the number of positions its iterator visits and       *)
(* arr.len the number of reduceat segments per position (1 for the other   *)
(* loops); iter.row and i are the current position and segment.  The       *)
(* output is buffer O and holds junk before the call.  A kernel raises     *)
(* only while it holds the interpreter lock (needs_api), and may leave the *)
(* sticky floating-point status set.  call.failed is the position of the   *)
(* first invocation that raised, << >> if none did; call.fperr_checks      *)
(* counts the calls of _check_ufunc_fperr; call.fperr records a check that *)
(* failed.                                                                 *)
(***************************************************************************)
MaxBlocks == 3
MaxSegments == 3

LoopKinds ==
    {"iterator_loop", "fancy", "generalized", "reduce", "accumulate",
     "accumulate_noiter", "reduceat", "reduceat_noiter", "at"}

LoopsInit ==
    /\ operation = "loops"
    /\ \E kind \in LoopKinds, needs_api \in BOOLEAN, errormask \in {"ignore", "raise"} :
          call = [kind |-> kind, needs_api |-> needs_api, errormask |-> errormask,
                  fpstatus |-> FALSE, failed |-> << >>, fperr_checks |-> 0,
                  fperr |-> FALSE, retval |-> 0]
    /\ \E rows \in 1..MaxBlocks, len \in 1..MaxSegments :
          /\ call.kind \in {"accumulate_noiter", "reduceat_noiter"} => rows = 1
          /\ call.kind \notin {"reduceat", "reduceat_noiter"} => len = 1
          /\ arr = [ndim |-> 2, rows |-> rows, len |-> len]
    /\ mem = [b \in Buffers |->
                IF b = "O" THEN Filled(arr.rows, arr.len, "junk") ELSE NoBuffer]
    /\ op = <<"NULL", "O">>
    /\ out = "O"
    /\ ind = << >>
    /\ otype = "NULL"
    /\ iter = IF call.kind \in {"accumulate_noiter", "reduceat_noiter"}
              THEN NoIter
              ELSE [state |-> "external_loop", row |-> 0, writeback |-> "NULL"]
    /\ i = 0
    /\ pc = "lp_loop"
    /\ ret = ""
    /\ err = "none"
    /\ calls = {}
    /\ ufunc = "NULL"
    /\ initial = "NULL"
    /\ core = "NULL"

(* innerloop(dataptr, count, strides, innerloopdata) on position row,      *)
(* segment seg: the kernel writes its output element; it may raise and may *)
(* set the floating-point status.                                          *)
InvokeKernel(row, seg, kernel_error, fp_flag) ==
    /\ calls' = calls \cup {[row |-> row, seg |-> seg, first |-> 0, step |-> 0,
                             count |-> 1]}
    /\ mem' = Store(mem, <<"O", row, seg>>, Atom(row, seg))
    /\ err' = IF kernel_error THEN "kernel" ELSE err
    /\ call' = [call EXCEPT
                  !.failed = IF kernel_error /\ call.failed = << >>
                             THEN <<row, seg>> ELSE @,
                  !.fpstatus = @ \/ fp_flag]

KernelErrors == IF call.needs_api THEN BOOLEAN ELSE {FALSE}

(* PyErr_Occurred() *)
PyErr_Occurred(e) == e # "none"

(* do { innerloop(...); } while (!(needs_api && PyErr_Occurred()) &&       *)
(* iternext(iter)): one pass.                                              *)
DoWhilePass(kind) ==
    /\ call.kind = kind
    /\ pc = "lp_loop"
    /\ \E kernel_error \in KernelErrors, fp_flag \in BOOLEAN :
          InvokeKernel(iter.row, 0, kernel_error, fp_flag)
    /\ IF ~(call.needs_api /\ PyErr_Occurred(err')) /\ iter.row + 1 < arr.rows
       THEN iter' = [iter EXCEPT !.row = iter.row + 1] /\ pc' = pc
       ELSE iter' = iter /\ pc' = "lp_return"
    /\ UNCHANGED <<operation, arr, ind, out, otype, op, i, ret>>
    /\ UNCHANGED <<ufunc, initial, core>>

LP_iterator_loop ==
    /\ operation = "loops"
    /\ DoWhilePass("iterator_loop")

LP_execute_fancy_ufunc_loop ==
    /\ operation = "loops"
    /\ DoWhilePass("fancy")

LP_GeneralizedLoop ==
    /\ operation = "loops"
    /\ DoWhilePass("generalized")

LP_reduce_loop ==
    /\ operation = "loops"
    /\ DoWhilePass("reduce")

LP_AccumulateLoop ==
    /\ operation = "loops"
    /\ DoWhilePass("accumulate")

(* PyUFunc_Accumulate without an iterator: the kernel is called once.      *)
LP_AccumulateNoIter ==
    /\ operation = "loops"
    /\ call.kind = "accumulate_noiter"
    /\ pc = "lp_loop"
    /\ \E kernel_error \in KernelErrors, fp_flag \in BOOLEAN :
          InvokeKernel(0, 0, kernel_error, fp_flag)
    /\ pc' = "lp_return"
    /\ UNCHANGED <<operation, arr, ind, out, otype, op, iter, i, ret>>
    /\ UNCHANGED <<ufunc, initial, core>>

(* PyUFunc_Reduceat with an iterator: do { for (i = 0; i < ind_size; ++i)  *)
(* { ... innerloop(...); } } while (!(needs_api && PyErr_Occurred()) &&    *)
(* iternext(iter)): one pass of the for loop.                              *)
LP_ReduceatLoop ==
    /\ operation = "loops"
    /\ call.kind = "reduceat"
    /\ pc = "lp_loop"
    /\ \E kernel_error \in KernelErrors, fp_flag \in BOOLEAN :
          InvokeKernel(iter.row, i, kernel_error, fp_flag)
    /\ IF i + 1 < arr.len
       THEN i' = i + 1 /\ iter' = iter /\ pc' = pc
       ELSE /\ i' = 0
            /\ IF ~(call.needs_api /\ PyErr_Occurred(err')) /\ iter.row + 1 < arr.rows
               THEN iter' = [iter EXCEPT !.row = iter.row + 1] /\ pc' = pc
               ELSE iter' = iter /\ pc' = "lp_return"
    /\ UNCHANGED <<operation, arr, ind, out, otype, op, ret>>
    /\ UNCHANGED <<ufunc, initial, core>>

(* PyUFunc_Reduceat without an iterator: for (i = 0; i < ind_size; ++i)    *)
(* { ... innerloop(...); }: one pass.                                      *)
LP_ReduceatNoIter ==
    /\ operation = "loops"
    /\ call.kind = "reduceat_noiter"
    /\ pc = "lp_loop"
    /\ \E kernel_error \in KernelErrors, fp_flag \in BOOLEAN :
          InvokeKernel(0, i, kernel_error, fp_flag)
    /\ IF i + 1 < arr.len
       THEN i' = i + 1 /\ pc' = pc
       ELSE i' = 0 /\ pc' = "lp_return"
    /\ UNCHANGED <<operation, arr, ind, out, otype, op, iter, ret>>
    /\ UNCHANGED <<ufunc, initial, core>>

(* ufunc_at: while (i > 0) { ... innerloop(...); if (needs_api &&          *)
(* PyErr_Occurred()) break; ...; i--; }: one pass.                         *)
LP_AtLoop ==
    /\ operation = "loops"
    /\ call.kind = "at"
    /\ pc = "lp_loop"
    /\ \E kernel_error \in KernelErrors, fp_flag \in BOOLEAN :
          InvokeKernel(iter.row, 0, kernel_error, fp_flag)
    /\ IF call.needs_api /\ PyErr_Occurred(err')
       THEN iter' = iter /\ pc' = "lp_return"
       ELSE /\ iter' = [iter EXCEPT !.row = iter.row + 1]
            /\ pc' = IF iter.row + 1 < arr.rows THEN pc ELSE "lp_return"
    /\ UNCHANGED <<operation, arr, ind, out, otype, op, i, ret>>
    /\ UNCHANGED <<ufunc, initial, core>>

(* NpyIter_Deallocate reports failure whenever an error is set, and may    *)
(* fail by itself.                                                         *)
DeallocateResults(e) == IF PyErr_Occurred(e) THEN {FALSE} ELSE BOOLEAN

LoopReturns(kind, value, e, next) ==
    /\ call.kind = kind
    /\ pc = "lp_return"
    /\ pc' = next
    /\ err' = e
    /\ IF next = "done"
       THEN ret' = value /\ call' = call
       ELSE ret' = ret /\ call' = [call EXCEPT !.retval = value]
    /\ iter' = IF iter.state = "NULL" THEN iter ELSE [iter EXCEPT !.state = "deallocated"]
    /\ UNCHANGED <<operation, arr, ind, out, otype, mem, op, i, calls>>
    /\ UNCHANGED <<ufunc, initial, core>>

(* iterator_loop: if (NpyIter_Deallocate(iter) == NPY_FAIL) return -1;     *)
(* return 0;                                                               *)
LP_IteratorLoopReturn ==
    /\ operation = "loops"
    /\ \E dealloc_ok \in DeallocateResults(err) :
       LoopReturns("iterator_loop", IF dealloc_ok THEN 0 ELSE -1,
                   IF dealloc_ok THEN err ELSE IF PyErr_Occurred(err) THEN err
                                               ELSE "DeallocError",
                   "lp_check")

(* execute_fancy_ufunc_loop: return NpyIter_Deallocate(iter);              *)
LP_FancyLoopReturn ==
    /\ operation = "loops"
    /\ \E dealloc_ok \in DeallocateResults(err) :
       LoopReturns("fancy", IF dealloc_ok THEN 1 ELSE 0,
                   IF dealloc_ok THEN err ELSE IF PyErr_Occurred(err) THEN err
                                               ELSE "DeallocError",
                   "lp_check")

(* _check_ufunc_fperr: reads and clears the floating-point status and      *)
(* raises as errormask directs; negative when it raised.                   *)
_check_ufunc_fperr(errormask, fpstatus) ==
    IF fpstatus /\ errormask = "raise" THEN -1 ELSE 0

(* PyUFunc_GenericFunctionInternal after the loop: if (retval < 0) return  *)
(* -1; if (PyErr_Occurred() || _check_ufunc_fperr(...) < 0) return -1;     *)
(* return retval;                                                          *)
LP_GenericFunctionCheck ==
    /\ operation = "loops"
    /\ pc = "lp_check"
    /\ IF call.retval < 0 \/ PyErr_Occurred(err)
       THEN ret' = "-1" /\ err' = err /\ call' = call
       ELSE LET checked == _check_ufunc_fperr(call.errormask, call.fpstatus)
            IN  /\ call' = [call EXCEPT !.fperr_checks = @ + 1, !.fpstatus = FALSE,
                                        !.fperr = checked < 0]
                /\ ret' = IF checked < 0 THEN "-1" ELSE "0"
                /\ err' = IF checked < 0 THEN "FloatingPointError" ELSE err
    /\ pc' = "done"
    /\ UNCHANGED <<operation, arr, ind, out, otype, mem, op, iter, i, calls>>
    /\ UNCHANGED <<ufunc, initial, core>>

(* PyUFunc_GeneralizedFunctionInternal after the loop.                     *)
LP_GeneralizedReturn ==
    /\ operation = "loops"
    /\ call.kind = "generalized"
    /\ pc = "lp_return"
    /\ IF PyErr_Occurred(err)
       THEN ret' = "-1" /\ err' = err /\ call' = call
       ELSE LET checked == _check_ufunc_fperr(call.errormask, call.fpstatus)
            IN  /\ call' = [call EXCEPT !.fperr_checks = @ + 1, !.fpstatus = FALSE,
                                        !.fperr = checked < 0]
                /\ IF checked < 0
                   THEN ret' = "-1" /\ err' = "FloatingPointError"
                   ELSE \E dealloc_ok \in BOOLEAN :
                           /\ ret' = "0"
                           /\ err' = IF dealloc_ok THEN err ELSE "DeallocError"
    /\ iter' = [iter EXCEPT !.state = "deallocated"]
    /\ pc' = "done"
    /\ UNCHANGED <<operation, arr, ind, out, otype, mem, op, i, calls>>
    /\ UNCHANGED <<ufunc, initial, core>>

(* reduce_loop: return (needs_api && PyErr_Occurred()) ? -1 : 0;           *)
LP_ReduceLoopReturn ==
    /\ operation = "loops"
    /\ LoopReturns("reduce", IF call.needs_api /\ PyErr_Occurred(err) THEN -1 ELSE 0,
                   err, "lp_wrapper")

(* PyUFunc_ReduceWrapper after the loop: a failed loop or a set error      *)
(* fails the reduction, otherwise the floating-point status is checked.    *)
LP_ReduceWrapper ==
    /\ operation = "loops"
    /\ pc = "lp_wrapper"
    /\ IF call.retval < 0 \/ PyErr_Occurred(err)
       THEN ret' = "NULL" /\ err' = err /\ call' = call
       ELSE LET checked == _check_ufunc_fperr(call.errormask, call.fpstatus)
            IN  /\ call' = [call EXCEPT !.fperr_checks = @ + 1, !.fpstatus = FALSE,
                                        !.fperr = checked < 0]
                /\ ret' = IF checked < 0 THEN "NULL" ELSE out
                /\ err' = IF checked < 0 THEN "FloatingPointError" ELSE err
    /\ pc' = "done"
    /\ UNCHANGED <<operation, arr, ind, out, otype, mem, op, iter, i, calls>>
    /\ UNCHANGED <<ufunc, initial, core>>

(* PyUFunc_Accumulate, finish: if (!NpyIter_Deallocate(iter)) res = -1;    *)
(* NULL if res < 0, otherwise out.                                         *)
LP_AccumulateReturn ==
    /\ operation = "loops"
    /\ \E dealloc_ok \in DeallocateResults(err), kind \in {"accumulate", "accumulate_noiter"} :
       LoopReturns(kind, IF dealloc_ok THEN out ELSE "NULL",
                   IF dealloc_ok THEN err ELSE IF PyErr_Occurred(err) THEN err
                                               ELSE "DeallocError",
                   "done")

(* PyUFunc_Reduceat, finish: if (!NpyIter_Deallocate(iter)) return NULL;   *)
(* return out;                                                             *)
LP_ReduceatReturn ==
    /\ operation = "loops"
    /\ \E dealloc_ok \in DeallocateResults(err), kind \in {"reduceat", "reduceat_noiter"} :
       LoopReturns(kind, IF dealloc_ok THEN out ELSE "NULL",
                   IF dealloc_ok THEN err ELSE IF PyErr_Occurred(err) THEN err
                                               ELSE "DeallocError",
                   "done")

(* ufunc_at after the loop: NpyIter_Deallocate(iter_buffer); NULL if       *)
(* needs_api && PyErr_Occurred(), otherwise None.                          *)
LP_AtReturn ==
    /\ operation = "loops"
    /\ \E dealloc_ok \in DeallocateResults(err) :
       LoopReturns("at",
                   IF call.needs_api /\ (PyErr_Occurred(err) \/ ~dealloc_ok)
                   THEN "NULL" ELSE "None",
                   IF dealloc_ok THEN err ELSE IF PyErr_Occurred(err) THEN err
                                               ELSE "DeallocError",
                   "done")

LoopsNext ==
    \/ LP_iterator_loop
    \/ LP_execute_fancy_ufunc_loop
    \/ LP_GeneralizedLoop
    \/ LP_reduce_loop
    \/ LP_AccumulateLoop
    \/ LP_AccumulateNoIter
    \/ LP_ReduceatLoop
    \/ LP_ReduceatNoIter
    \/ LP_AtLoop
    \/ LP_IteratorLoopReturn
    \/ LP_FancyLoopReturn
    \/ LP_GenericFunctionCheck
    \/ LP_GeneralizedReturn
    \/ LP_ReduceLoopReturn
    \/ LP_ReduceWrapper
    \/ LP_AccumulateReturn
    \/ LP_ReduceatReturn
    \/ LP_AtReturn

SpecLoops == LoopsInit /\ [][LoopsNext]_vars

(* The kernel invocation at p comes after the one at q.                    *)
After(p, q) == p[1] > q[1] \/ (p[1] = q[1] /\ p[2] > q[2])
Failure(r) == r \in {"-1", "NULL"}
KernelRaised == operation = "loops" /\ call.failed # << >>

\* C16: mid-loop error halts iteration.  In every kernel loop, once the kernel
\* has raised while processing one block the kernel is not invoked for any
\* later block, the call returns failure, and every output element an
\* invocation wrote still holds what was written.
C16_Original_ErrorHaltsIteration ==
    KernelRaised =>
        /\ \A c \in calls : ~After(<<c.row, c.seg>>, call.failed)
        /\ pc = "done" => Failure(ret)
        /\ \A c \in calls : Load(mem, <<"O", c.row, c.seg>>) = Atom(c.row, c.seg)

(* reduceat without an iterator: the kernel raised on the first segment,   *)
(* was invoked for the next one all the same, and the call then failed.    *)
C16_Witness ==
    /\ KernelRaised
    /\ call.kind = "reduceat_noiter"
    /\ call.failed = <<0, 0>>
    /\ \E c \in calls : c.row = 0 /\ c.seg = 1
    /\ pc = "done"
    /\ ret = "NULL"


(* The call returned and nothing but the floating-point check could have   *)
(* failed it.                                                              *)
LoopCompleted ==
    /\ operation = "loops"
    /\ pc = "done"
    /\ call.failed = << >>
    /\ err # "DeallocError"

\* C17: floating-point status check.  For every entry point (plain call,
\* generalized call, reduce, accumulate, reduceat, at) a call whose kernel loop
\* ran to its end has checked the sticky floating-point status exactly once,
\* and has failed if that check failed.
C17_Original_StatusCheckedOncePerCall ==
    LoopCompleted =>
        /\ call.fperr_checks = 1
        /\ call.fperr => Failure(ret)

(* accumulate: the kernel left the floating-point status set, errors are   *)
(* to be raised, and the call returned its result without any check.       *)
C17_Witness ==
    /\ LoopCompleted
    /\ call.kind = "accumulate"
    /\ call.fpstatus
    /\ call.errormask = "raise"
    /\ call.fperr_checks = 0
    /\ ret = out


(***************************************************************************)
(* PyUFunc_GeneralizedFunctionInternal with the keepdims= and axis=        *)
(* keywords, up to the iteration shape handed to the iterator.             *)
(* call.keepdims is -1 (not passed), 0 or 1; call.axis is [null, value].   *)
(* core holds, besides the per-call copies, remap_axis (per operand, a     *)
(* table logical axis -> axis of the array, or no table) and               *)
(* broadcast_ndim.  iter is the plan: shape is iter_shape (-1 for a        *)
(* broadcast axis), core_axes[k] the first slot and the number of slots of *)
(* the core axes of output k.                                              *)
(***************************************************************************)
KwMaxRank == 3

KeywordSignatures ==
    {[signature |-> <<"(", "i", ")", ",", "(", "i", ")", "-", ">", "(", ")">>,
      nin |-> 2, nout |-> 1],
     [signature |-> <<"(", "i", ")", "-", ">", "(", "i", ")">>,
      nin |-> 1, nout |-> 1],
     [signature |-> <<"(", "i", ")", ",", "(", ")", "-", ">", "(", ")">>,
      nin |-> 2, nout |-> 1],
     [signature |-> <<"(", "i", "?", ")", ",", "(", "i", "?", ")", "-", ">", "(", ")">>,
      nin |-> 2, nout |-> 1],
     [signature |-> <<"(", "i", ",", "i", ")", "-", ">", "(", ")">>,
      nin |-> 1, nout |-> 1],
     [signature |-> <<"(", "i", ",", "j", ")", "-", ">", "(", ")">>,
      nin |-> 1, nout |-> 1],
     [signature |-> <<"(", "i", ")", "-", ">", "(", "j", ")">>,
      nin |-> 1, nout |-> 1]}

KeywordArrays ==
    {[null |-> FALSE, shape |-> sh] :
        sh \in UNION {{[p \in 1..r |-> 2], [p \in 1..r |-> p]} : r \in 0..KwMaxRank}}

NoRemap == [null |-> TRUE, axes |-> << >>]

KeywordInit ==
    /\ operation = "gufunc_kw"
    /\ \E sig \in KeywordSignatures, keepdims \in {-1, 0, 1},
          axis \in {[null |-> TRUE, value |-> 0]}
                   \cup {[null |-> FALSE, value |-> v] : v \in (-KwMaxRank - 1)..KwMaxRank} :
          call = [signature |-> sig.signature, nin |-> sig.nin, nout |-> sig.nout,
                  keepdims |-> keepdims, axis |-> axis]
    /\ ufunc = _parse_signature(UFuncObject("gufunc", call.nin, call.nout, "PyUFunc_None"),
                                call.signature).uf
    /\ op \in [0..(call.nin + call.nout - 1) -> KeywordArrays \cup {NullArray}]
    /\ \A k \in 0..(call.nin - 1) : ~op[k].null
    /\ core = "NULL"
    /\ initial = "NULL"
    /\ arr = [ndim |-> 0, rows |-> 0, len |-> 0]
    /\ ind = << >>
    /\ out = "NULL"
    /\ otype = "NULL"
    /\ mem = [b \in Buffers |-> NoBuffer]
    /\ iter = NoIter
    /\ i = 0
    /\ pc = "kw_start"
    /\ ret = ""
    /\ err = "none"
    /\ calls = {}

KW_Fail(e) ==
    /\ pc' = "done"
    /\ ret' = "NULL"
    /\ err' = e

(* _check_keepdims_support: TRUE when it returns 0. *)
_check_keepdims_support_InputsOnly(uf) ==
    \A k \in 1..(uf.nin - 1) : uf.core_num_dims[k] = uf.core_num_dims[0]

_check_keepdims_support(uf) ==
    LET input_core_dims == uf.core_num_dims[0]
    IN  \A k \in 1..(uf.nin + uf.nout - 1) :
           uf.core_num_dims[k] = (IF k < uf.nin THEN input_core_dims ELSE 0)

(* _check_axis_support: TRUE when it returns 0. *)
_check_axis_support(uf) == uf.core_num_dim_ix = 1

(* _initialize_variable_parts, the two keyword checks, and the assignment  *)
(* of the inputs' number of core dimensions to the outputs under           *)
(* keepdims=True.                                                          *)
KW_CheckKeywords ==
    /\ operation = "gufunc_kw"
    /\ pc = "kw_start"
    /\ LET c0 == _initialize_variable_parts(ufunc)
           num_dims == c0.op_core_num_dims[0]
       IN  /\ core' = [op_core_num_dims |->
                          [k \in DOMAIN c0.op_core_num_dims |->
                              IF call.keepdims = 1 /\ k >= ufunc.nin THEN num_dims
                              ELSE c0.op_core_num_dims[k]],
                       core_dim_sizes |-> c0.core_dim_sizes,
                       core_dim_flags |-> c0.core_dim_flags,
                       dropped |-> c0.dropped,
                       remap_axis |-> [k \in 0..(ufunc.nargs - 1) |-> NoRemap],
                       broadcast_ndim |-> 0]
           /\ IF call.keepdims # -1 /\ ~_check_keepdims_support(ufunc)
              THEN KW_Fail("does not support keepdims")
              ELSE IF ~call.axis.null /\ ~_check_axis_support(ufunc)
              THEN KW_Fail("axis can only be used with a single shared core dimension")
              ELSE pc' = "kw_validate" /\ UNCHANGED <<ret, err>>
    /\ UNCHANGED <<operation, arr, ind, out, otype, mem, op, iter, i, calls>>
    /\ UNCHANGED <<ufunc, call, initial>>

KW_ValidateNumDims ==
    /\ operation = "gufunc_kw"
    /\ pc = "kw_validate"
    /\ LET r == _validate_num_dims(ufunc, op, core, 0)
       IN  /\ core' = r.core
           /\ IF r.ok
              THEN pc' = "kw_axes" /\ UNCHANGED <<ret, err, i>>
              ELSE KW_Fail("operand does not have enough dimensions") /\ i' = r.operand
    /\ UNCHANGED <<operation, arr, ind, out, otype, mem, op, iter, calls>>
    /\ UNCHANGED <<ufunc, call, initial>>

(* check_and_adjust_axis: an axis outside [-ndim, ndim) is an error, a     *)
(* negative one counts from the end.                                       *)
check_and_adjust_axis(axis, ndim) ==
    IF axis < -ndim \/ axis >= ndim THEN [ok |-> FALSE, axis |-> axis]
    ELSE [ok |-> TRUE, axis |-> IF axis < 0 THEN axis + ndim ELSE axis]

(* remap_axis[iop][op_ndim - 1] = op_axis; the axes before op_axis map to  *)
(* themselves and the axes from op_axis on map to the next one.            *)
RemapAxis_NoShift(op_axis, op_ndim) ==
    [null |-> FALSE,
     axes |-> [axis \in 0..(op_ndim - 1) |->
                  IF axis = op_ndim - 1 THEN op_axis ELSE axis]]

RemapAxis(op_axis, op_ndim) ==
    [null |-> FALSE,
     axes |-> [axis \in 0..(op_ndim - 1) |->
                  IF axis = op_ndim - 1 THEN op_axis
                  ELSE IF axis < op_axis THEN axis
                  ELSE axis + 1]]

(* _parse_axis_arg, for (iop = 0; iop < nop; ++iop) from iop on: the       *)
(* result is [ok, remap_axis].                                             *)
RECURSIVE _parse_axis_arg(_, _, _, _, _, _, _)
_parse_axis_arg(uf, core_num_dims, axis_int, ops, broadcast_ndim, remap_axis, iop) ==
    IF iop >= uf.nargs THEN [ok |-> TRUE, remap_axis |-> remap_axis]
    ELSE IF core_num_dims[iop] = 0
    THEN _parse_axis_arg(uf, core_num_dims, axis_int, ops, broadcast_ndim,
                         [remap_axis EXCEPT ![iop] = NoRemap], iop + 1)
    ELSE LET op_ndim == IF ~ops[iop].null THEN PyArray_NDIM(ops[iop])
                        ELSE broadcast_ndim + 1
             adjusted == check_and_adjust_axis(axis_int, op_ndim)
         IN  IF ~adjusted.ok THEN [ok |-> FALSE, remap_axis |-> remap_axis]
             ELSE _parse_axis_arg(uf, core_num_dims, axis_int, ops, broadcast_ndim,
                                  [remap_axis EXCEPT ![iop] =
                                      IF adjusted.axis = op_ndim - 1 THEN NoRemap
                                      ELSE RemapAxis(adjusted.axis, op_ndim)],
                                  iop + 1)

(* The number of iteration dimensions: the largest number of non-core      *)
(* dimensions of a supplied operand.                                       *)
BroadcastNdim(ops, op_core_num_dims) ==
    LET ns == {PyArray_NDIM(ops[k]) - op_core_num_dims[k] :
                  k \in {x \in DOMAIN ops : ~ops[x].null}} \cup {0}
    IN  CHOOSE n \in ns : \A m \in ns : m <= n

KW_RemapAxes ==
    /\ operation = "gufunc_kw"
    /\ pc = "kw_axes"
    /\ LET broadcast_ndim == BroadcastNdim(op, core.op_core_num_dims)
           r == IF call.axis.null THEN [ok |-> TRUE, remap_axis |-> core.remap_axis]
                ELSE _parse_axis_arg(ufunc, core.op_core_num_dims, call.axis.value, op,
                                     broadcast_ndim, core.remap_axis, 0)
       IN  /\ core' = [core EXCEPT !.broadcast_ndim = broadcast_ndim,
                                   !.remap_axis = r.remap_axis]
           /\ IF r.ok
              THEN pc' = "kw_sizes" /\ UNCHANGED <<ret, err>>
              ELSE KW_Fail("axis is out of bounds")
    /\ UNCHANGED <<operation, arr, ind, out, otype, mem, op, iter, i, calls>>
    /\ UNCHANGED <<ufunc, call, initial>>

(* The operands as REMAP_AXIS presents them: axis x of the view is axis    *)
(* remap_axis[iop][x] of the array.                                        *)
REMAP_AXIS(ops, remap_axis) ==
    [k \in DOMAIN ops |->
        IF ops[k].null \/ remap_axis[k].null THEN ops[k]
        ELSE [null |-> FALSE,
              shape |-> [p \in 1..PyArray_NDIM(ops[k]) |->
                            ops[k].shape[remap_axis[k].axes[p - 1] + 1]]]]

KW_GetCoredimSizes ==
    /\ operation = "gufunc_kw"
    /\ pc = "kw_sizes"
    /\ LET r == _get_coredim_sizes(ufunc, REMAP_AXIS(op, core.remap_axis), core)
       IN  /\ core' = r.core
           /\ IF r.error = "NULL"
              THEN pc' = "kw_shape" /\ UNCHANGED <<ret, err>>
              ELSE KW_Fail(r.error)
    /\ UNCHANGED <<operation, arr, ind, out, otype, mem, op, iter, i, calls>>
    /\ UNCHANGED <<ufunc, call, initial>>

(* The part of iter_shape that belongs to output k: under keepdims one     *)
(* axis of extent 1 per core dimension assigned to it, otherwise the sizes *)
(* of its core dimensions that are present.                                *)
OutputIterShape(uf, c, keepdims, k) ==
    IF keepdims = 1 THEN [idim \in 1..c.op_core_num_dims[k] |-> 1]
    ELSE PresentCoreDims(uf, c, k)

RECURSIVE IterShapeFrom(_, _, _, _)
IterShapeFrom(uf, c, keepdims, k) ==
    IF k >= uf.nargs THEN << >>
    ELSE OutputIterShape(uf, c, keepdims, k) \o IterShapeFrom(uf, c, keepdims, k + 1)

RECURSIVE OutputCoreNdim(_, _, _)
OutputCoreNdim(uf, c, k) ==
    IF k >= uf.nargs THEN 0 ELSE c.op_core_num_dims[k] + OutputCoreNdim(uf, c, k + 1)

(* iter_ndim, iter_shape and the slots of each output's core axes.         *)
KW_IterShape ==
    /\ operation = "gufunc_kw"
    /\ pc = "kw_shape"
    /\ LET iter_ndim == core.broadcast_ndim + OutputCoreNdim(ufunc, core, ufunc.nin)
           iter_shape == [idim \in 1..core.broadcast_ndim |-> -1]
                         \o IterShapeFrom(ufunc, core, call.keepdims, ufunc.nin)
       IN  IF iter_ndim > NPY_MAXDIMS
           THEN KW_Fail("too many dimensions for generalized ufunc") /\ iter' = iter
           ELSE /\ iter' = [state |-> "planned", row |-> 0, writeback |-> "NULL",
                            shape |-> iter_shape,
                            core_axes |->
                               [k \in ufunc.nin..(ufunc.nargs - 1) |->
                                   [first |-> core.broadcast_ndim
                                              + Len(IterShapeFrom(ufunc, core, call.keepdims,
                                                                  ufunc.nin))
                                              - Len(IterShapeFrom(ufunc, core, call.keepdims, k)),
                                    count |-> Len(OutputIterShape(ufunc, core,
                                                                  call.keepdims, k))]]]
                /\ pc' = "kw_plan"
                /\ UNCHANGED <<ret, err>>
    /\ UNCHANGED <<operation, arr, ind, out, otype, mem, op, i, calls>>
    /\ UNCHANGED frontVars

(* NpyIter_AdvancedNew and everything after it: the call fails or returns. *)
KW_CreateIterator ==
    /\ operation = "gufunc_kw"
    /\ pc = "kw_plan"
    /\ \E failure \in {"none", "iterator"} :
          IF failure # "none" THEN KW_Fail(failure)
          ELSE pc' = "done" /\ ret' = "0" /\ err' = err
    /\ iter' = [iter EXCEPT !.state = "deallocated"]
    /\ UNCHANGED <<operation, arr, ind, out, otype, mem, op, i, calls>>
    /\ UNCHANGED frontVars

KeywordNext ==
    \/ KW_CheckKeywords
    \/ KW_ValidateNumDims
    \/ KW_RemapAxes
    \/ KW_GetCoredimSizes
    \/ KW_IterShape
    \/ KW_CreateIterator

SpecKeywords == KeywordInit /\ [][KeywordNext]_vars

KeywordInputs == 0..(ufunc.nin - 1)
KeywordOutputs == ufunc.nin..(ufunc.nargs - 1)

(* Every input is written with the same number of core dimensions and     *)
(* every output with none.                                                 *)
KeepdimsLegal ==
    /\ \A a, b \in KeywordInputs : ufunc.core_num_dims[a] = ufunc.core_num_dims[b]
    /\ \A o \in KeywordOutputs : ufunc.core_num_dims[o] = 0

\* C18: keepdims on generalized ufuncs.  keepdims=True is accepted only if
\* every input has the same number of core dimensions and every output has
\* none; otherwise the call fails before any iteration plan is built.  When it
\* is accepted every output is assigned the inputs' number of core dimensions,
\* and in the iteration shape each of the output's core axes has extent 1.
C18_KeepdimsOnGufuncs ==
    (operation = "gufunc_kw" /\ call.keepdims = 1) =>
        /\ (~KeepdimsLegal /\ pc # "kw_start") =>
              /\ pc = "done"
              /\ ret = "NULL"
              /\ err = "does not support keepdims"
              /\ iter = NoIter
        /\ pc = "kw_validate" =>
              \A o \in KeywordOutputs, a \in KeywordInputs :
                 core.op_core_num_dims[o] = core.op_core_num_dims[a]
        /\ pc \in {"kw_axes", "kw_sizes", "kw_shape", "kw_plan"} =>
              \A o \in KeywordOutputs : core.op_core_num_dims[o] = ufunc.core_num_dims[0]
        /\ pc = "kw_plan" =>
              \A o \in KeywordOutputs :
                 /\ iter.core_axes[o].count = core.op_core_num_dims[o]
                 /\ \A j \in 1..iter.core_axes[o].count :
                       iter.shape[iter.core_axes[o].first + j] = 1

(* inner1d-like call with keepdims=True over operands of rank 3: the plan  *)
(* has two broadcast axes and one output core axis of extent 1.            *)
C18_Witness ==
    /\ operation = "gufunc_kw"
    /\ call.keepdims = 1
    /\ call.axis.null
    /\ pc = "kw_plan"
    /\ ufunc.nin = 2
    /\ ufunc.core_num_dims[0] = 1
    /\ PyArray_NDIM(op[0]) = 3
    /\ op[2].null
    /\ iter.shape = <<-1, -1, 1>>


(* The rank _parse_axis_arg works with for operand k, and the axis it is   *)
(* asked for, counted from the front.                                      *)
AxisRank(k) == IF ~op[k].null THEN PyArray_NDIM(op[k]) ELSE core.broadcast_ndim + 1
NormalizedAxis(k) ==
    IF call.axis.value < 0 THEN call.axis.value + AxisRank(k) ELSE call.axis.value

\* C19: axis= remapping.  axis= is rejected unless the signature has exactly
\* one distinct core dimension.  Once the remap table is built, an operand of
\* rank r that has the core dimension, with normalized axis a in [0, r), has
\* logical axis r-1 sent to a, logical axis k to k for k < a and to k+1 for
\* a <= k < r-1, which is a permutation of 0..r-1; an operand without a core
\* dimension, or with a = r-1, has no remap.
C19_AxisRemapping ==
    (operation = "gufunc_kw" /\ ~call.axis.null) =>
        /\ (ufunc.core_num_dim_ix # 1 /\ pc # "kw_start") =>
              /\ pc = "done"
              /\ ret = "NULL"
              /\ err \in {"does not support keepdims",
                          "axis can only be used with a single shared core dimension"}
              /\ iter = NoIter
        /\ pc \in {"kw_sizes", "kw_shape", "kw_plan"} =>
              \A k \in 0..(ufunc.nargs - 1) :
                 LET r == AxisRank(k)
                     a == NormalizedAxis(k)
                     remap == core.remap_axis[k]
                 IN  /\ core.op_core_num_dims[k] # 0 => a \in 0..(r - 1)
                     /\ IF core.op_core_num_dims[k] = 0 \/ a = r - 1
                        THEN remap.null
                        ELSE /\ ~remap.null
                             /\ DOMAIN remap.axes = 0..(r - 1)
                             /\ remap.axes[r - 1] = a
                             /\ \A x \in 0..(a - 1) : remap.axes[x] = x
                             /\ \A x \in a..(r - 2) : remap.axes[x] = x + 1
                             /\ {remap.axes[x] : x \in 0..(r - 1)} = 0..(r - 1)

(* axis=1 on an operand of rank 3: logical axes 0, 1, 2 are the array's    *)
(* axes 0, 2, 1.                                                           *)
C19_Witness ==
    /\ operation = "gufunc_kw"
    /\ ~call.axis.null
    /\ pc = "kw_sizes"
    /\ PyArray_NDIM(op[0]) = 3
    /\ NormalizedAxis(0) = 1
    /\ ~core.remap_axis[0].null
    /\ core.remap_axis[0].axes = [x \in 0..2 |-> IF x = 0 THEN 0 ELSE IF x = 1 THEN 2 ELSE 1]


(***************************************************************************)
(* The trivial loop and the iterator loop run on the same operands.  The   *)
(* operands of op(a, b, out=...) are op[0], op[1], op[2]; buffer A holds   *)
(* the elements of a and buffer C those of b, each in the array's own      *)
(* (row-major) element order.  The trivial loop writes buffer T and the    *)
(* iterator loop buffer O; a caller's output holds the same junk in both.  *)
(* call.order is the memory order the contiguous operands of more than one *)
(* dimension share; call.trivial and call.generic are what each path       *)
(* returned and the shape of its output.                                   *)
(***************************************************************************)
NotRun == [result |-> -3, shape |-> << >>]

TrivialInit ==
    /\ operation = "equivalence"
    /\ ufunc = UFuncObject("add", 2, 1, "PyUFunc_Zero")
    /\ \E a \in Arrays, b \in Arrays :
          \E o \in {NullArray, a, b, Like(<< >>)} :
             op = [k \in 0..2 |-> IF k = 0 THEN a ELSE IF k = 1 THEN b ELSE o]
    /\ \E order \in {"NPY_ARRAY_C_CONTIGUOUS", "NPY_ARRAY_F_CONTIGUOUS"} :
          call = [order |-> order, trivial |-> NotRun, generic |-> NotRun]
    /\ mem = [b \in Buffers |->
                IF b = "A" THEN MaskedOperand(PyArray_MultiplyList(op[0].shape), 0)
                ELSE IF b = "C" THEN MaskedOperand(PyArray_MultiplyList(op[1].shape), 1)
                ELSE IF ~op[2].null
                THEN Filled(1, PyArray_MultiplyList(op[2].shape), "junk")
                ELSE NoBuffer]
    /\ core = "NULL"
    /\ initial = "NULL"
    /\ arr = [ndim |-> 0, rows |-> 0, len |-> 0]
    /\ ind = << >>
    /\ out = "NULL"
    /\ otype = "NULL"
    /\ iter = NoIter
    /\ i = 0
    /\ pc = "tl_trivial"
    /\ ret = ""
    /\ err = "none"
    /\ calls = {}

(* fixed_strides[iop], in elements: 0 for a 0-D operand, one element for   *)
(* the others.  An output the function allocates gets one element also     *)
(* when it is 0-D; the count is 1 then and the stride is not used.         *)
FixedStride_AlwaysOne(operand) == 1

FixedStride(operand) == IF PyArray_NDIM(operand) = 0 THEN 0 ELSE 1

Reverse(s) == [p \in 1..Len(s) |-> s[Len(s) + 1 - p]]

(* The element of an array of this shape found at memory position j of a   *)
(* contiguous array in the given order, as its row-major position.         *)
ElementAt(j, shape, order) ==
    IF Len(shape) <= 1 THEN j
    ELSE LET x == CHOOSE y \in Indices(shape) :
                     j = IF order = "NPY_ARRAY_F_CONTIGUOUS"
                         THEN FlatIndex(Reverse(y), Reverse(shape))
                         ELSE FlatIndex(y, shape)
         IN  FlatIndex(x, shape)

(* innerloop(data, &count, fixed_strides, innerloopdata) from element j on. *)
RECURSIVE TrivialInnerLoop(_, _, _, _, _, _)
TrivialInnerLoop(m, ops, shape, order, count, j) ==
    IF j >= count THEN m
    ELSE Once({TrivialInnerLoop(m1, ops, shape, order, count, j + 1) :
               m1 \in {Store(m, <<"T", 0, ElementAt(j * FixedStride(ops[2]), shape, order)>>,
                             InnerOp(Load(m, <<"A", 0, ElementAt(j * FixedStride(ops[0]),
                                                                 ops[0].shape, order)>>),
                                     Load(m, <<"C", 0, ElementAt(j * FixedStride(ops[1]),
                                                                 ops[1].shape, order)>>)))}})

(* execute_legacy_ufunc_loop taking the fast path.                         *)
TL_TrivialLoop ==
    /\ operation = "equivalence"
    /\ pc = "tl_trivial"
    /\ \E layout_ok \in BOOLEAN, overlap_ok \in BOOLEAN, alloc_ok \in BOOLEAN,
          prep_ok \in BOOLEAN :
          LET r == try_trivial_single_output_loop(ufunc, op, layout_ok, overlap_ok,
                                                  alloc_ok, prep_ok)
              m0 == IF op[2].null /\ r.result # -2 /\ ~r.out.null
                    THEN [mem EXCEPT !["T"] =
                            Filled(1, PyArray_MultiplyList(r.out.shape), "garbage")]
                    ELSE mem
          IN  /\ call' = [call EXCEPT !.trivial = [result |-> r.result, shape |-> r.out.shape]]
              /\ IF r.result = -1
                 THEN /\ pc' = "done" /\ ret' = "-1" /\ err' = "prepare"
                      /\ mem' = m0 /\ calls' = calls
                 ELSE IF r.result = 0
                 THEN /\ mem' = TrivialInnerLoop(
                                   m0, [op EXCEPT ![2] = r.out], r.out.shape,
                                   call.order, r.count, 0)
                      /\ calls' = calls \cup {[row |-> 0, seg |-> 0, first |-> 0,
                                                 step |-> 1, count |-> r.count]}
                      /\ pc' = "tl_iterator"
                      /\ UNCHANGED <<ret, err>>
                 ELSE /\ pc' = "tl_iterator"
                      /\ UNCHANGED <<mem, calls, ret, err>>
    /\ UNCHANGED <<operation, arr, ind, out, otype, op, iter, i>>
    /\ UNCHANGED <<ufunc, initial, core>>

(* The kernel on the elements first .. first + count - 1 of the iteration: *)
(* element e is the index x of the iteration shape, and each operand is    *)
(* read or written at the index x is broadcast to.                         *)
RECURSIVE IteratorInnerLoop(_, _, _, _, _)
IteratorInnerLoop(m, ops, shape, first, count) ==
    IF count <= 0 THEN m
    ELSE Once({IteratorInnerLoop(m1, ops, shape, first + 1, count - 1) :
               m1 \in {LET x == CHOOSE y \in Indices(shape) : FlatIndex(y, shape) = first
                           At0(k) == FlatIndex(OperandIndex(x, ops[k].shape), ops[k].shape)
                       IN  Store(m, <<"O", 0, At0(2)>>,
                                 InnerOp(Load(m, <<"A", 0, At0(0)>>),
                                         Load(m, <<"C", 0, At0(1)>>)))}})

RECURSIVE IteratorBlocks(_, _, _, _)
IteratorBlocks(m, ops, shape, blocks) ==
    IF blocks = {} THEN m
    ELSE LET b == CHOOSE c \in blocks : \A d \in blocks : c.first <= d.first
         IN  IteratorBlocks(IteratorInnerLoop(m, ops, shape, b.first, b.count),
                            ops, shape, blocks \ {b})

(* iterator_loop on the operands as they were passed.                      *)
TL_IteratorLoop ==
    /\ operation = "equivalence"
    /\ pc = "tl_iterator"
    /\ \E prep_ok \in BOOLEAN, dealloc_ok \in BOOLEAN :
          LET it == ElementwiseIterator(op, {})
              full_size == PyArray_MultiplyList(it.shape)
              m0 == IF op[2].null
                    THEN [mem EXCEPT !["O"] = Filled(1, full_size, "garbage")]
                    ELSE mem
          IN  IF ~prep_ok
              THEN /\ pc' = "done" /\ ret' = "-1" /\ err' = "prepare"
                   /\ UNCHANGED <<mem, iter, calls, call>>
              ELSE IF ~it.ok
              THEN /\ pc' = "done" /\ ret' = "-1"
                   /\ err' = "operands could not be broadcast together"
                   /\ UNCHANGED <<mem, iter, calls, call>>
              ELSE /\ iter' = [state |-> IF dealloc_ok THEN "deallocated" ELSE "failed",
                               row |-> 0, writeback |-> "NULL", shape |-> it.shape]
                   /\ call' = [call EXCEPT !.generic =
                                  [result |-> IF dealloc_ok THEN 0 ELSE -1,
                                   shape |-> it.op[2].shape]]
                   /\ IF SkipLoop(full_size)
                      THEN mem' = m0 /\ calls' = calls
                      ELSE \E c0 \in {1, full_size} :
                              /\ mem' = IteratorBlocks(m0, it.op, it.shape,
                                                       BlockCalls(full_size, c0))
                              /\ calls' = calls \cup BlockCalls(full_size, c0)
                   /\ pc' = "done"
                   /\ ret' = IF dealloc_ok THEN "0" ELSE "-1"
                   /\ err' = IF dealloc_ok THEN err ELSE "DeallocError"
    /\ UNCHANGED <<operation, arr, ind, out, otype, op, i>>
    /\ UNCHANGED <<ufunc, initial, core>>

TrivialNext ==
    \/ TL_TrivialLoop
    \/ TL_IteratorLoop

SpecTrivial == TrivialInit /\ [][TrivialNext]_vars

TrivialAccepted == operation = "equivalence" /\ call.trivial.result = 0

ItemSize == 2

TrivialStrides == {0 - ItemSize, 0, 1, ItemSize, 2 * ItemSize}

TrivialShapes == {<< >>, <<2>>, <<3>>, <<2, 2>>, <<1, 2>>}

(* The flags an array of the shape can carry: both flags together only     *)
(* when at most one extent differs from 1.                                 *)
ContiguityFlags(shape) ==
    IF Len(shape) < 2 THEN {{"C", "F"}}
    ELSE IF Cardinality({d \in 1..Len(shape) : shape[d] # 1}) <= 1
    THEN {{}, {"C", "F"}}
    ELSE {{}, {"C"}, {"F"}}

TrivialOperands ==
    UNION {{[null |-> FALSE, shape |-> s, flags |-> f, stride |-> t] :
               f \in ContiguityFlags(s),
               t \in IF Len(s) = 1 THEN TrivialStrides ELSE {ItemSize}} :
           s \in TrivialShapes}

NullOperand == [null |-> TRUE, shape |-> << >>, flags |-> {}, stride |-> 0]

(* call.overlap is the set of inputs for which                             *)
(* PyArray_EQUIVALENTLY_ITERABLE_OVERLAP_OK holds against the output; the  *)
(* macro requires equal rank and shape.  call.supplied tells whether the   *)
(* caller gave an output.                                                  *)
AcceptanceInit ==
    /\ operation = "trivial_acceptance"
    /\ ufunc = [nin |-> 2, nout |-> 1]
    /\ op \in [0..2 -> TrivialOperands \cup {NullOperand}]
    /\ \A k \in 0..1 : ~op[k].null
    /\ \E order \in {"C", "F", "K"}, overlap \in SUBSET (0..1) :
          /\ \A k \in overlap : ~op[2].null /\ op[k].shape = op[2].shape
          /\ call = [order |-> order, overlap |-> overlap,
                     supplied |-> ~op[2].null, prepared |-> FALSE,
                     fixed_strides |-> << >>]
    /\ pc = "ta_start"
    /\ ret = "none" /\ err = "none" /\ calls = {}
    /\ arr = << >> /\ ind = << >> /\ out = << >> /\ otype = "none"
    /\ mem = << >> /\ iter = NoIter /\ i = 0
    /\ initial = "none" /\ core = << >>

(* The self-overlap test of a supplied one-dimensional output.             *)
SelfOverlap_Never(stride) == FALSE

SelfOverlap(stride) == stride < ItemSize /\ stride # 0

(* One pass of the operand loop: st is [ndim, shape, order, strides, ok]. *)
ScanOperand(operand, st) ==
    LET op_ndim == PyArray_NDIM(operand)
        first == st.ndim = 0
        ndim == IF first THEN op_ndim ELSE st.ndim
        shape == IF first THEN operand.shape ELSE st.shape
        op_order == operand.flags
    IN  IF ~st.ok THEN st
        ELSE IF operand.null THEN [st EXCEPT !.strides = Append(@, 0)]
        ELSE IF op_ndim = 0 THEN [st EXCEPT !.strides = Append(@, 0)]
        ELSE IF op_ndim # ndim \/ operand.shape # shape
        THEN [st EXCEPT !.ok = FALSE]
        ELSE IF op_ndim = 1
        THEN [st EXCEPT !.ndim = ndim, !.shape = shape,
                        !.strides = Append(@, operand.stride)]
        ELSE IF op_order = {} THEN [st EXCEPT !.ok = FALSE]
        ELSE IF st.order = {}
        THEN [st EXCEPT !.ndim = ndim, !.shape = shape, !.order = op_order,
                        !.strides = Append(@, ItemSize)]
        ELSE IF st.order # op_order THEN [st EXCEPT !.ok = FALSE]
        ELSE [st EXCEPT !.ndim = ndim, !.shape = shape,
                        !.strides = Append(@, ItemSize)]

OperationOrder(order) ==
    IF order = "C" THEN {"C"} ELSE IF order = "F" THEN {"F"} ELSE {}

(* The whole function: result, whether the prepare hook ran, the output    *)
(* operand, the count handed to the kernel and the strides handed to it.   *)
TrivialAcceptance(ops, order, overlap, alloc_ok, prep_ok) ==
    LET st0 == [ndim |-> 0, shape |-> << >>, order |-> OperationOrder(order),
                strides |-> << >>, ok |-> TRUE]
        st == ScanOperand(ops[2], ScanOperand(ops[1], ScanOperand(ops[0], st0)))
        none == [result |-> "-2", prepared |-> FALSE, out |-> ops[2],
                 count |-> -1, strides |-> << >>]
        fresh == [null |-> FALSE, shape |-> st.shape,
                  flags |-> IF st.order = {} THEN {"C", "F"} ELSE st.order,
                  stride |-> ItemSize]
        strides == IF ops[2].null
                   THEN [st.strides EXCEPT ![3] = ItemSize]
                   ELSE st.strides
    IN  IF ~st.ok THEN none
        ELSE IF ops[2].null /\ ~alloc_ok THEN [none EXCEPT !.result = "-1"]
        ELSE IF ~ops[2].null /\ (0..1) \ overlap # {} THEN none
        ELSE IF ~ops[2].null /\ st.ndim = 1 /\ SelfOverlap(ops[2].stride) THEN none
        ELSE LET o == IF ops[2].null THEN fresh ELSE ops[2]
             IN  IF ~prep_ok
                 THEN [result |-> "-1", prepared |-> TRUE, out |-> o,
                       count |-> -1, strides |-> << >>]
                 ELSE [result |-> "0", prepared |-> TRUE, out |-> o,
                       count |-> PyArray_MultiplyList(st.shape),
                       strides |-> strides]

TA_TryTrivial ==
    /\ operation = "trivial_acceptance"
    /\ pc = "ta_start"
    /\ \E alloc_ok \in BOOLEAN, prep_ok \in BOOLEAN :
          LET r == TrivialAcceptance(op, call.order, call.overlap, alloc_ok, prep_ok)
          IN  /\ ret' = r.result
              /\ op' = [op EXCEPT ![2] = r.out]
              /\ call' = [call EXCEPT !.prepared = r.prepared,
                                      !.fixed_strides = r.strides]
              /\ calls' = IF r.result = "0"
                          THEN {[row |-> 0, seg |-> 0, first |-> 0, step |-> 1,
                                 count |-> r.count]}
                          ELSE {}
              /\ err' = IF r.result = "-1" THEN "error" ELSE "none"
    /\ pc' = "ta_done"
    /\ UNCHANGED <<operation, arr, ind, out, otype, mem, iter, i>>
    /\ UNCHANGED <<ufunc, initial, core>>

AcceptanceNext == TA_TryTrivial

SpecTrivialAcceptance == AcceptanceInit /\ [][AcceptanceNext]_vars

Ranked == {k \in 0..2 : ~op[k].null /\ PyArray_NDIM(op[k]) > 0}

SameRankAndShape == \A k1 \in Ranked, k2 \in Ranked : op[k1].shape = op[k2].shape

RequestedOrders ==
    IF call.order = "C" THEN {"C"} ELSE IF call.order = "F" THEN {"F"} ELSE {"C", "F"}

(* An order that every operand of rank above one has and the request allows. *)
CommonOrder ==
    \E o \in RequestedOrders :
        \A k \in Ranked : PyArray_NDIM(op[k]) > 1 => o \in op[k].flags

InputsCompatible == call.supplied => call.overlap = 0..1

OutputStrideSafe ==
    ~(call.supplied /\ PyArray_NDIM(op[2]) = 1
      /\ op[2].stride # 0 /\ op[2].stride < ItemSize)

AcceptanceConditions ==
    SameRankAndShape /\ CommonOrder /\ InputsCompatible /\ OutputStrideSafe

KernelInvoked == calls # {}

(* The conditions under which the kernel is called, the single call and    *)
(* the result when a condition fails; zero_stride is the set of operands   *)
(* of rank zero that were handed to the kernel with stride 0.              *)
TrivialLoopContract(zero_stride) ==
    (operation = "trivial_acceptance" /\ pc = "ta_done") =>
        /\ KernelInvoked =>
              /\ AcceptanceConditions
              /\ ret = "0"
              /\ \E c \in calls :
                    /\ calls = {c}
                    /\ \A k \in Ranked : c.count = PyArray_MultiplyList(op[k].shape)
                    /\ Ranked = {} => c.count = 1
              /\ \A k \in zero_stride :
                    PyArray_NDIM(op[k]) = 0 => call.fixed_strides[k + 1] = 0
        /\ ~AcceptanceConditions =>
              ret = "-2" /\ ~KernelInvoked /\ ~call.prepared

MaxCount == 4

MaskBytes == {0, 1, 2}

MaskRunInit ==
    /\ operation = "mask_runs"
    /\ \E total \in 0..MaxCount, mask_stride \in {0, 1} :
          /\ arr \in [1..((IF mask_stride = 0 THEN 0 ELSE total) + 1) -> MaskBytes]
          /\ call = [total |-> total, mask_stride |-> mask_stride,
                     count |-> total,
                     n |-> IF mask_stride = 0 THEN total ELSE 1,
                     maskptr |-> 0, first |-> 0]
    /\ pc = "ms_while"
    /\ calls = << >> /\ ind = << >> /\ out = {}
    /\ ret = "none" /\ err = "none" /\ otype = "none"
    /\ mem = << >> /\ op = << >> /\ iter = NoIter /\ i = 0
    /\ ufunc = << >> /\ initial = "none" /\ core = << >>

(* The byte under the mask pointer. *)
MaskByte(bytes, maskptr) == bytes[maskptr + 1]

(* The selection of a run for the kernel. *)
RunSelected_Always(mask) == TRUE

RunSelected(mask) == mask # 0

(* The inner while loop: n grows while it is below count and the byte      *)
(* under the mask pointer equals mask; reads collects the pointer          *)
(* positions that were dereferenced.                                       *)
RECURSIVE ExtendRun(_, _, _, _, _, _, _)
ExtendRun(bytes, mask, mask_stride, count, n, maskptr, reads) ==
    IF n < count
    THEN IF mask = MaskByte(bytes, maskptr)
         THEN ExtendRun(bytes, mask, mask_stride, count, n + 1,
                        maskptr + mask_stride, reads \cup {maskptr})
         ELSE [n |-> n, maskptr |-> maskptr, reads |-> reads \cup {maskptr}]
    ELSE [n |-> n, maskptr |-> maskptr, reads |-> reads]

(* One pass of while (count): the run is found, handed to the kernel when  *)
(* its mask byte is set, and the pointers move behind it.                  *)
MS_ScanRun ==
    /\ operation = "mask_runs"
    /\ pc = "ms_while"
    /\ call.count # 0
    /\ LET mask == MaskByte(arr, call.maskptr)
           run == ExtendRun(arr, mask, call.mask_stride, call.count, call.n,
                            call.maskptr + call.mask_stride, {call.maskptr})
       IN  /\ calls' = IF RunSelected(mask)
                       THEN Append(calls, [row |-> 0, seg |-> 0, first |-> call.first,
                                           step |-> 1, count |-> run.n])
                       ELSE calls
           /\ ind' = Append(ind, [first |-> call.first, count |-> run.n, mask |-> mask])
           /\ out' = out \cup run.reads
           /\ call' = [call EXCEPT !.count = @ - run.n, !.n = 1,
                                   !.maskptr = run.maskptr,
                                   !.first = @ + run.n]
    /\ UNCHANGED <<operation, arr, otype, mem, op, iter, i, pc, ret, err>>
    /\ UNCHANGED <<ufunc, initial, core>>

(* while (count) ends. *)
MS_BlockDone ==
    /\ operation = "mask_runs"
    /\ pc = "ms_while"
    /\ call.count = 0
    /\ pc' = "ms_done"
    /\ UNCHANGED <<operation, arr, ind, out, otype, mem, op, iter, i, ret, err, calls>>
    /\ UNCHANGED frontVars

MaskRunNext == MS_ScanRun \/ MS_BlockDone

SpecMaskRuns == MaskRunInit /\ [][MaskRunNext]_vars

(* The mask byte of element k of the block. *)
ElementMask(k) == IF call.mask_stride = 0 THEN arr[1] ELSE arr[k + 1]

RunElements(r) == r.first..(r.first + r.count - 1)

(* The elements an element-by-element masked loop processes. *)
MaskedElements == {k \in 0..(call.total - 1) : ElementMask(k) # 0}

(* C22: the runs found partition the element range of the block in order   *)
(* without gap or overlap, every run holds elements of one mask byte, the  *)
(* kernel calls are exactly the runs of set bytes in order, so that at the *)
(* end the elements handed to the kernel are those of an element-wise      *)
(* masked loop; a mask of stride 0 makes one run of the whole block; the   *)
(* mask is never read at a position at or behind count.                    *)
C22_MaskRunScan ==
    operation = "mask_runs" =>
        /\ \A j \in 1..Len(ind) :
              /\ ind[j].count >= 1
              /\ ind[j].first = (IF j = 1 THEN 0 ELSE ind[j - 1].first + ind[j - 1].count)
              /\ \A k \in RunElements(ind[j]) : ElementMask(k) = ind[j].mask
        /\ call.first = (IF ind = << >> THEN 0
                         ELSE ind[Len(ind)].first + ind[Len(ind)].count)
        /\ call.first + call.count = call.total
        /\ LET set == {j \in 1..Len(ind) : ind[j].mask # 0}
           IN  /\ Len(calls) = Cardinality(set)
               /\ \A c \in 1..Len(calls) :
                     \E j \in set :
                        /\ Cardinality({j1 \in set : j1 <= j}) = c
                        /\ calls[c].first = ind[j].first
                        /\ calls[c].count = ind[j].count
        /\ pc = "ms_done" =>
              /\ call.count = 0
              /\ UNION {RunElements(calls[c]) : c \in 1..Len(calls)} = MaskedElements
              /\ \A c1 \in 1..Len(calls), c2 \in 1..Len(calls) :
                    c1 # c2 => RunElements(calls[c1]) \cap RunElements(calls[c2]) = {}
              /\ (call.mask_stride = 0 /\ call.total > 0) => Len(ind) = 1
        /\ \A m \in out : IF call.mask_stride = 0 THEN m = 0 ELSE m < call.total

(* A block of four elements whose mask has a false run between two true    *)
(* runs of different bytes has been scanned.                               *)
C22_Witness ==
    /\ operation = "mask_runs" /\ pc = "ms_done"
    /\ call.total = MaxCount /\ call.mask_stride = 1
    /\ Len(ind) >= 3 /\ Len(calls) = 2
    /\ \E j \in 1..Len(ind) : ind[j].mask = 0 /\ ind[j].count >= 1


(***************************************************************************)
(* The cooperative-threading bracket of the ten loop sites.  call.save is  *)
(* the saved thread state of NPY_BEGIN_THREADS_DEF (set when the bracket   *)
(* was entered), call.held tells whether the runtime is owned, ind is the  *)
(* log of the operations in order, each with the ownership it ran under.   *)
(***************************************************************************)
Threshold == 2

ThreadPaths == {"trivial", "iterator_loop", "fancy", "generalized", "reduce",
                "accumulate", "accumulate_noiter", "reduceat", "reduceat_noiter",
                "at"}

IteratorPaths == {"iterator_loop", "fancy", "generalized", "reduce",
                  "accumulate", "reduceat", "at"}

(* refchk: an operand dtype holds references; object: the loop type is     *)
(* the object type, which holds references; iter_api: the iterator needs   *)
(* the runtime, which it does for reference-holding dtypes; sel_api: the   *)
(* loop selector raised the flag it was handed.                            *)
ThreadsInit ==
    /\ operation = "threads"
    /\ \E path \in ThreadPaths, refchk \in BOOLEAN, object \in BOOLEAN,
          iter_api \in BOOLEAN, sel_api \in BOOLEAN,
          size \in {1, Threshold, Threshold + 1}, blocks \in 1..2 :
          /\ object => refchk
          /\ IF path \in IteratorPaths THEN refchk => iter_api ELSE ~iter_api
          /\ (path \notin {"reduce", "at"}) => ~sel_api
          /\ call = [path |-> path, refchk |-> refchk, object |-> object,
                     iter_api |-> iter_api, sel_api |-> sel_api, size |-> size,
                     blocks |-> blocks, needs_api |-> FALSE, save |-> FALSE,
                     held |-> TRUE, reacquired |-> 0, err_msg |-> FALSE]
    /\ pc = "th_begin"
    /\ ind = << >>
    /\ ret = "none" /\ err = "none" /\ calls = {}
    /\ arr = << >> /\ out = << >> /\ otype = "none"
    /\ mem = << >> /\ op = << >> /\ iter = NoIter /\ i = 0
    /\ ufunc = << >> /\ initial = "none" /\ core = << >>

Logged(log, what, held) == Append(log, [what |-> what, held |-> held])

(* The macros of the bracket. *)
NPY_BEGIN_THREADS_THRESHOLDED(loop_size) == loop_size > Threshold

NPY_BEGIN_THREADS_NDITER(iter_api, itersize) ==
    ~iter_api /\ NPY_BEGIN_THREADS_THRESHOLDED(itersize)

(* The flag needs_api of each site. *)
NeedsApi_Never(path, refchk, iter_api, sel_api) == FALSE

NeedsApi(path, refchk, iter_api, sel_api) ==
    IF path \in {"trivial", "accumulate_noiter", "reduceat_noiter"} THEN refchk
    ELSE IF path \in {"reduce", "at"} THEN iter_api \/ sel_api
    ELSE iter_api

(* The bracket decision of each site. *)
BracketEntered(path, needs_api, iter_api, size) ==
    IF path \in {"trivial", "iterator_loop", "accumulate_noiter"}
    THEN ~needs_api /\ NPY_BEGIN_THREADS_THRESHOLDED(size)
    ELSE IF path = "generalized"
    THEN ~needs_api /\ ~iter_api /\ NPY_BEGIN_THREADS_THRESHOLDED(size)
    ELSE IF path \in {"fancy", "reduce", "accumulate", "reduceat"}
    THEN NPY_BEGIN_THREADS_NDITER(iter_api, size)
    ELSE ~needs_api

Enter(path, next) ==
    /\ pc = "th_begin"
    /\ call.path = path
    /\ LET needs_api == NeedsApi(path, call.refchk, call.iter_api, call.sel_api)
           entered == BracketEntered(path, needs_api, call.iter_api, call.size)
           before == IF path = "accumulate_noiter" /\ call.object
                     THEN Logged(ind, "refcount", call.held) ELSE ind
       IN  /\ call' = [call EXCEPT !.needs_api = needs_api, !.save = entered,
                                   !.held = ~entered]
           /\ ind' = IF entered THEN Logged(before, "enter", TRUE) ELSE before
    /\ pc' = next
    /\ UNCHANGED <<operation, arr, out, otype, mem, op, iter, i, ret, err, calls>>
    /\ UNCHANGED <<ufunc, initial, core>>

TH_Trivial == operation = "threads" /\ Enter("trivial", "th_single")

TH_IteratorLoop == operation = "threads" /\ Enter("iterator_loop", "th_loop")

TH_FancyLoop == operation = "threads" /\ Enter("fancy", "th_loop")

TH_Generalized == operation = "threads" /\ Enter("generalized", "th_loop")

TH_ReduceLoop == operation = "threads" /\ Enter("reduce", "th_loop")

TH_Accumulate == operation = "threads" /\ Enter("accumulate", "th_loop")

TH_AccumulateNoIter == operation = "threads" /\ Enter("accumulate_noiter", "th_single")

TH_Reduceat == operation = "threads" /\ Enter("reduceat", "th_loop")

TH_ReduceatNoIter == operation = "threads" /\ Enter("reduceat_noiter", "th_single")

TH_At == operation = "threads" /\ Enter("at", "th_loop")

(* One pass of a block loop: the base pointers are reset (at), the first   *)
(* element is copied (accumulate, reduceat), the kernel runs, the loop     *)
(* condition queries the error indicator when needs_api is set.            *)
TH_Block ==
    /\ operation = "threads"
    /\ pc = "th_loop"
    /\ \E reset_failed \in (IF call.path = "at" THEN BOOLEAN ELSE {FALSE}),
          kernel_error \in BOOLEAN :
          LET copy == IF call.path \in {"accumulate", "reduceat"} /\ call.object
                      THEN Logged(ind, "refcount", call.held) ELSE ind
              ran == Logged(copy, "kernel", call.held)
              asked == IF call.needs_api
                       THEN Logged(ran, "PyErr_Occurred", call.held) ELSE ran
              raised == kernel_error /\ call.needs_api
          IN  IF reset_failed
              THEN /\ call' = [call EXCEPT !.err_msg = TRUE]
                   /\ pc' = "th_end"
                   /\ UNCHANGED <<ind, err>>
              ELSE /\ ind' = asked
                   /\ err' = IF raised THEN "error" ELSE err
                   /\ call' = [call EXCEPT !.blocks = @ - 1]
                   /\ pc' = IF raised \/ call.blocks = 1 THEN "th_end" ELSE "th_loop"
    /\ UNCHANGED <<operation, arr, out, otype, mem, op, iter, i, ret, calls>>
    /\ UNCHANGED <<ufunc, initial, core>>

(* The sites without a loop condition: one kernel call (trivial,           *)
(* accumulate) or one per segment after the copy of its first element      *)
(* (reduceat).                                                             *)
TH_Single ==
    /\ operation = "threads"
    /\ pc = "th_single"
    /\ LET copy == IF call.path = "reduceat_noiter" /\ call.object
                   THEN Logged(ind, "refcount", call.held) ELSE ind
       IN  ind' = Logged(copy, "kernel", call.held)
    /\ call' = [call EXCEPT !.blocks = @ - 1]
    /\ pc' = IF call.path = "reduceat_noiter" /\ call.blocks > 1
             THEN "th_single" ELSE "th_end"
    /\ UNCHANGED <<operation, arr, out, otype, mem, op, iter, i, ret, err, calls>>
    /\ UNCHANGED <<ufunc, initial, core>>

(* NPY_END_THREADS: the runtime is taken back when the bracket was         *)
(* entered; the generalized loop repeats its entry condition around it.    *)
TH_EndThreads ==
    /\ operation = "threads"
    /\ pc = "th_end"
    /\ LET reached == call.path # "generalized" \/ (~call.needs_api /\ ~call.iter_api)
       IN  IF reached /\ call.save
           THEN /\ call' = [call EXCEPT !.held = TRUE, !.reacquired = @ + 1]
                /\ ind' = Logged(ind, "reacquire", call.held)
           ELSE UNCHANGED <<call, ind>>
    /\ pc' = "th_after"
    /\ UNCHANGED <<operation, arr, out, otype, mem, op, iter, i, ret, err, calls>>
    /\ UNCHANGED <<ufunc, initial, core>>

(* What each site does between NPY_END_THREADS and its return. *)
AfterLoop(path, needs_api, err_msg) ==
    IF path \in {"iterator_loop", "fancy", "accumulate", "reduceat"}
    THEN <<"NpyIter_Deallocate">>
    ELSE IF path = "generalized" THEN <<"PyErr_Occurred", "NpyIter_Deallocate">>
    ELSE IF path = "reduce"
    THEN IF needs_api THEN <<"PyErr_Occurred">> ELSE << >>
    ELSE IF path = "at"
    THEN (IF err_msg THEN <<"PyErr_SetString">> ELSE << >>)
         \o <<"NpyIter_Deallocate", "refcount">>
         \o (IF needs_api THEN <<"PyErr_Occurred">> ELSE << >>)
    ELSE << >>

TH_Return ==
    /\ operation = "threads"
    /\ pc = "th_after"
    /\ LET after == AfterLoop(call.path, call.needs_api, call.err_msg)
       IN  ind' = ind \o [k \in 1..Len(after) |-> [what |-> after[k], held |-> call.held]]
                      \o <<[what |-> "return", held |-> call.held]>>
    /\ pc' = "th_done"
    /\ UNCHANGED <<operation, arr, out, otype, mem, op, iter, i, ret, err, calls>>
    /\ UNCHANGED <<call, ufunc, initial, core>>

ThreadsNext ==
    \/ TH_Trivial \/ TH_IteratorLoop \/ TH_FancyLoop \/ TH_Generalized
    \/ TH_ReduceLoop \/ TH_Accumulate \/ TH_AccumulateNoIter \/ TH_Reduceat
    \/ TH_ReduceatNoIter \/ TH_At
    \/ TH_Block \/ TH_Single \/ TH_EndThreads \/ TH_Return

SpecThreads == ThreadsInit /\ [][ThreadsNext]_vars

ThresholdedPaths == ThreadPaths \ {"reduceat_noiter", "at"}

(* C23 as stated: on every path the bracket is entered only when no        *)
(* operand dtype holds references and the element count is above the       *)
(* threshold.                                                              *)
C23_Original_BracketEntry ==
    (operation = "threads" /\ call.save) =>
        ~call.refchk /\ call.size > Threshold

(* C23: on every path the bracket is entered only when no operand dtype    *)
(* holds references; the element count is above the threshold on every     *)
(* path but reduceat without an iterator and at, which enter the bracket   *)
(* at any count.                                                           *)
C23_BracketEntry ==
    (operation = "threads" /\ call.save) =>
        /\ ~call.refchk
        /\ call.path \in ThresholdedPaths => call.size > Threshold

(* The bracket was entered by at below the threshold.                      *)
C23_Witness ==
    /\ operation = "threads" /\ call.save /\ pc = "th_done"
    /\ call.path = "at" /\ call.size = 1

RuntimeOperations ==
    {"PyErr_Occurred", "PyErr_SetString", "NpyIter_Deallocate", "refcount", "return"}

(* C24 as stated: once the bracket was entered, every operation that needs *)
(* the runtime, up to and including the return, runs after the runtime was *)
(* taken back, and it is taken back exactly once.                          *)
C24_Original_BracketExit ==
    operation = "threads" =>
        /\ \A k \in 1..Len(ind) : ind[k].what \in RuntimeOperations => ind[k].held
        /\ call.reacquired <= 1
        /\ (pc = "th_done" /\ call.save) => call.reacquired = 1

(* The reduce loop asked for the error indicator inside the bracket.       *)
C24_Witness ==
    /\ operation = "threads" /\ pc = "th_done" /\ call.path = "reduce"
    /\ call.save /\ call.reacquired = 1
    /\ \E k \in 1..Len(ind) : ind[k].what = "PyErr_Occurred" /\ ~ind[k].held

(* C27 as stated: the error indicator is asked for between blocks only     *)
(* while the runtime is owned, and the bracket is never entered while      *)
(* needs_api is set, in the reduce loop as elsewhere.                      *)
C27_Original_NoRuntimeAccessInside ==
    operation = "threads" =>
        /\ ~(call.save /\ call.needs_api)
        /\ pc \in {"th_loop", "th_end"} =>
              \A k \in 1..Len(ind) : ind[k].what = "PyErr_Occurred" => ind[k].held

(* The selector raised needs_api in a reduce loop whose iterator does not  *)
(* need the runtime, and the bracket was entered.                          *)
C27_Witness ==
    /\ operation = "threads" /\ call.path = "reduce" /\ pc = "th_loop"
    /\ call.sel_api /\ ~call.iter_api /\ call.save /\ call.needs_api
    /\ ind # << >> /\ ind[Len(ind)].what = "PyErr_Occurred" /\ ~ind[Len(ind)].held


(***************************************************************************)
(* The builders and what they leave behind when they fail.  mem is the set *)
(* of live allocations; core.before is the ufunc object as it was when the *)
(* builder was called.                                                     *)
(***************************************************************************)
CoreArrays == {"core_num_dims", "core_offsets", "core_dim_ixs", "core_dim_sizes",
               "core_dim_flags"}

MaxOperands == 3

BuildersInit ==
    /\ operation = "builders"
    /\ \/ /\ call \in WrittenSignatures
          /\ ufunc = UFuncObject("gufunc", call.nin, call.nout, "PyUFunc_None")
          /\ core = [builder |-> "signature", before |-> ufunc]
          /\ mem = {"op_flags"}
          /\ pc = "bld_signature"
       \/ /\ \E nop \in 1..MaxOperands, axis \in BOOLEAN :
                call = [nop |-> nop, axis |-> axis, remapped |-> 0]
          /\ ufunc = "gufunc"
          /\ core = [builder |-> "call", before |-> "none"]
          /\ mem = {}
          /\ pc = "bld_remap"
    /\ ret = "none" /\ err = "none" /\ calls = {}
    /\ arr = << >> /\ ind = << >> /\ out = << >> /\ otype = "none"
    /\ op = << >> /\ iter = NoIter /\ i = 0
    /\ initial = "none"

(* What the label fail of _parse_signature releases. *)
ParseFailureReleases_Everything == CoreArrays \cup {"var_names", "core_signature"}

ParseFailureReleases == {"var_names"}

(* _parse_signature up to its return.  got is the set of allocations that  *)
(* succeeded.                                                              *)
BLD_ParseSignature ==
    /\ operation = "builders"
    /\ pc = "bld_signature"
    /\ \E got \in SUBSET (CoreArrays \cup {"var_names", "core_signature"}) :
          LET st == _parse_signature(ufunc, call.signature)
              sig == got \cap {"core_signature"}
              started == [ufunc EXCEPT !.core_enabled = 1, !.core_num_dim_ix = 0]
          IN  IF "var_names" \notin got
              THEN /\ mem' = mem \cup sig
                   /\ ret' = "-1" /\ err' = "MemoryError"
                   /\ UNCHANGED ufunc
              ELSE IF ~(CoreArrays \subseteq got)
              THEN /\ mem' = (mem \cup got) \ ParseFailureReleases
                   /\ ufunc' = started
                   /\ ret' = "-1" /\ err' = "MemoryError"
              ELSE IF st.parse_error # "NULL"
              THEN /\ mem' = (mem \cup got) \ ParseFailureReleases
                   /\ ufunc' = st.uf
                   /\ ret' = "-1" /\ err' = st.parse_error
              ELSE /\ mem' = (mem \cup got) \ {"var_names"}
                   /\ ufunc' = st.uf
                   /\ ret' = "0" /\ UNCHANGED err
    /\ pc' = "bld_parsed"
    /\ UNCHANGED <<operation, arr, ind, out, otype, op, iter, i, calls>>
    /\ UNCHANGED <<call, initial, core>>

(* The constructor after _parse_signature: on failure the object is        *)
(* released, and ufunc_dealloc frees what hangs on it.                     *)
BLD_ConstructorReturn ==
    /\ operation = "builders"
    /\ pc = "bld_parsed"
    /\ IF ret # "0"
       THEN ufunc' = "NULL" /\ mem' = {} /\ ret' = "NULL"
       ELSE UNCHANGED <<ufunc, mem>> /\ ret' = "ufunc"
    /\ pc' = "bld_done"
    /\ UNCHANGED <<operation, arr, ind, out, otype, op, iter, i, err, calls>>
    /\ UNCHANGED <<call, initial, core>>

(* The axis-remap table of a generalized call: two allocations, then one   *)
(* row per operand; parsing the axis argument can fail at any operand.     *)
BLD_RemapAxes ==
    /\ operation = "builders"
    /\ pc = "bld_remap"
    /\ IF ~call.axis
       THEN pc' = "bld_plan" /\ UNCHANGED <<mem, call, ret, err>>
       ELSE \E got \in SUBSET {"remap_axis", "remap_axis_memory"},
               rows \in 0..call.nop :
               /\ mem' = mem \cup got
               /\ IF got # {"remap_axis", "remap_axis_memory"}
                  THEN /\ ret' = "-1" /\ err' = "MemoryError" /\ pc' = "bld_fail"
                       /\ UNCHANGED call
                  ELSE /\ call' = [call EXCEPT !.remapped = rows]
                       /\ IF rows < call.nop
                          THEN ret' = "-1" /\ err' = "AxisError" /\ pc' = "bld_fail"
                          ELSE pc' = "bld_plan" /\ UNCHANGED <<ret, err>>
    /\ UNCHANGED <<operation, arr, ind, out, otype, op, iter, i, calls>>
    /\ UNCHANGED <<ufunc, initial, core>>

(* The iteration plan: NpyIter_AdvancedNew gives an iterator or NULL, then *)
(* the inner strides are allocated.                                        *)
BLD_CreateIterator ==
    /\ operation = "builders"
    /\ pc = "bld_plan"
    /\ \E created \in BOOLEAN, strides_ok \in BOOLEAN :
          IF ~created
          THEN /\ ret' = "-1" /\ err' = "ValueError" /\ pc' = "bld_fail"
               /\ UNCHANGED <<mem, iter>>
          ELSE IF ~strides_ok
          THEN /\ mem' = mem \cup {"iter"}
               /\ iter' = [NoIter EXCEPT !.state = "created"]
               /\ ret' = "-1" /\ err' = "MemoryError" /\ pc' = "bld_fail"
          ELSE /\ mem' = mem \cup {"iter", "inner_strides"}
               /\ iter' = [NoIter EXCEPT !.state = "created"]
               /\ pc' = "bld_finish" /\ UNCHANGED <<ret, err>>
    /\ UNCHANGED <<operation, arr, ind, out, otype, op, i, calls>>
    /\ UNCHANGED <<ufunc, call, initial, core>>

(* What the label fail of the generalized call releases. *)
CallReleases == {"inner_strides", "iter", "remap_axis_memory", "remap_axis"}

BLD_Fail ==
    /\ operation = "builders"
    /\ pc = "bld_fail"
    /\ mem' = mem \ CallReleases
    /\ iter' = NoIter
    /\ pc' = "bld_done"
    /\ UNCHANGED <<operation, arr, ind, out, otype, op, i, ret, err, calls>>
    /\ UNCHANGED frontVars

BLD_Finish ==
    /\ operation = "builders"
    /\ pc = "bld_finish"
    /\ mem' = mem \ CallReleases
    /\ iter' = NoIter
    /\ ret' = "0"
    /\ pc' = "bld_done"
    /\ UNCHANGED <<operation, arr, ind, out, otype, op, i, err, calls>>
    /\ UNCHANGED frontVars

BuildersNext ==
    \/ BLD_ParseSignature \/ BLD_ConstructorReturn
    \/ BLD_RemapAxes \/ BLD_CreateIterator \/ BLD_Fail \/ BLD_Finish

SpecBuilders == BuildersInit /\ [][BuildersNext]_vars

ParserFailed ==
    operation = "builders" /\ core.builder = "signature" /\ pc = "bld_parsed" /\ ret = "-1"

CallFailed ==
    operation = "builders" /\ core.builder = "call" /\ pc = "bld_done" /\ ret = "-1"

(* C25 as stated: when a builder returns an error, everything it allocated *)
(* has been released and no partly built table is left; after a failed     *)
(* _parse_signature the core fields of the ufunc object are as they were   *)
(* before the call.                                                        *)
C25_Original_AllOrNothing ==
    /\ ParserFailed => (mem = {"op_flags"} /\ ufunc = core.before)
    /\ CallFailed => (mem = {} /\ iter = NoIter)

(* C25: a failed generalized call has released its axis-remap table and    *)
(* its iteration plan when it returns.  A failed _parse_signature has      *)
(* released its table of names only: the core arrays it allocated stay     *)
(* attached to the ufunc object, partly filled, with core_enabled set once *)
(* the name table was allocated; the constructor releases them with the    *)
(* object before it returns NULL.                                          *)
C25_AllOrNothing ==
    /\ ParserFailed =>
          /\ "var_names" \notin mem
          /\ ufunc = core.before \/ ufunc.core_enabled = 1
          /\ err # "MemoryError" => (ufunc.core_enabled = 1 /\ CoreArrays \subseteq mem)
    /\ (operation = "builders" /\ core.builder = "signature" /\ pc = "bld_done"
        /\ ret = "NULL") => (mem = {} /\ ufunc = "NULL")
    /\ CallFailed => (mem = {} /\ iter = NoIter)

(* A parse error was found after core dimensions had been stored.          *)
C25_Witness ==
    /\ ParserFailed /\ err # "MemoryError"
    /\ ufunc.core_enabled = 1 /\ ufunc.core_num_dim_ix > 0
    /\ CoreArrays \subseteq mem


(***************************************************************************)
(* The two block loops of reduce_loop.  call.blocks are the blocks the     *)
(* iterator yields: count elements, first tells NpyIter_IsFirstVisit, and  *)
(* stride0 is strides[0].  call.pos is the block the iterator stands on;   *)
(* call.exhausted is set when iternext has returned false.  calls is the   *)
(* sequence of kernel calls.                                               *)
(***************************************************************************)
MaxBlockCount == 2

SkipBlocks == [count : 1..MaxBlockCount, first : BOOLEAN, stride0 : {0, 1}]

(* The first-visit elements of a block: its first element when the output *)
(* does not move, all of its elements when it does.                        *)
FirstVisitElements(b) == IF ~b.first THEN 0 ELSE IF b.stride0 = 0 THEN 1 ELSE b.count

RECURSIVE FirstVisitsUpTo(_, _)
FirstVisitsUpTo(blocks, k) ==
    IF k = 0 THEN 0 ELSE FirstVisitsUpTo(blocks, k - 1) + FirstVisitElements(blocks[k])

SkipInit ==
    /\ operation = "skip"
    /\ \E n \in 1..MaxBlocks :
          \E blocks \in [1..n -> SkipBlocks], needs_api \in BOOLEAN :
             \E skip \in 0..FirstVisitsUpTo(blocks, n) :
                call = [blocks |-> blocks, skip_first_count |-> skip, skip0 |-> skip,
                        needs_api |-> needs_api, pos |-> 1, exhausted |-> FALSE,
                        removed |-> 0, stale |-> 0]
    /\ pc = "rl_begin"
    /\ calls = << >>
    /\ ret = "none" /\ err = "none"
    /\ arr = << >> /\ ind = << >> /\ out = << >> /\ otype = "none"
    /\ mem = << >> /\ op = << >> /\ iter = NoIter /\ i = 0
    /\ ufunc = << >> /\ initial = "none" /\ core = << >>

(* The treatment of a block by the skipping loop: the count handed to the  *)
(* kernel and the new skip_first_count.                                    *)
SkipFirstVisit_Keep(b, skip_first_count) ==
    [count |-> b.count, skip_first_count |-> skip_first_count]

SkipFirstVisit(b, skip_first_count) ==
    IF b.first
    THEN IF b.stride0 = 0
         THEN [count |-> b.count - 1, skip_first_count |-> skip_first_count - 1]
         ELSE [count |-> 0, skip_first_count |-> skip_first_count - b.count]
    ELSE [count |-> b.count, skip_first_count |-> skip_first_count]

(* iternext: the iterator moves to the next block or reports exhaustion. *)
IterNext(c) ==
    IF c.pos < Len(c.blocks) THEN [c EXCEPT !.pos = @ + 1]
    ELSE [c EXCEPT !.pos = Len(c.blocks) + 1, !.exhausted = TRUE]

KernelCall(c, count, loop) ==
    [block |-> IF c.exhausted THEN 0 ELSE c.pos, count |-> count, loop |-> loop,
     exhausted |-> c.exhausted]

(* if (skip_first_count > 0) *)
RL_Begin ==
    /\ operation = "skip"
    /\ pc = "rl_begin"
    /\ pc' = IF call.skip_first_count > 0 THEN "rl_skip" ELSE "rl_between"
    /\ UNCHANGED <<operation, arr, ind, out, otype, mem, op, iter, i, ret, err, calls>>
    /\ UNCHANGED frontVars

(* One pass of the skipping loop. *)
RL_SkipBlock ==
    /\ operation = "skip"
    /\ pc = "rl_skip"
    /\ \E kernel_error \in (IF call.needs_api THEN BOOLEAN ELSE {FALSE}) :
          LET b == call.blocks[call.pos]
              s == SkipFirstVisit(b, call.skip_first_count)
              c1 == [call EXCEPT !.skip_first_count = s.skip_first_count,
                                 !.removed = @ + (b.count - s.count)]
              c2 == IterNext(c1)
          IN  /\ calls' = Append(calls, KernelCall(call, s.count, "skip"))
              /\ IF kernel_error
                 THEN err' = "error" /\ call' = c1 /\ pc' = "rl_finish"
                 ELSE /\ UNCHANGED err
                      /\ call' = c2
                      /\ pc' = IF s.skip_first_count = 0
                               THEN IF c2.exhausted THEN "rl_finish" ELSE "rl_between"
                               ELSE IF c2.exhausted THEN "rl_between" ELSE "rl_skip"
    /\ UNCHANGED <<operation, arr, ind, out, otype, mem, op, iter, i, ret>>
    /\ UNCHANGED <<ufunc, initial, core>>

(* The error test between the loops. *)
RL_Between ==
    /\ operation = "skip"
    /\ pc = "rl_between"
    /\ pc' = IF call.needs_api /\ err # "none" THEN "rl_finish" ELSE "rl_fast"
    /\ UNCHANGED <<operation, arr, ind, out, otype, mem, op, iter, i, ret, err, calls>>
    /\ UNCHANGED frontVars

(* One pass of the fast loop.  When the iterator is already exhausted the  *)
(* kernel runs on what the iterator last pointed at, and what iternext     *)
(* answers then is not defined.                                            *)
RL_FastBlock ==
    /\ operation = "skip"
    /\ pc = "rl_fast"
    /\ \E kernel_error \in (IF call.needs_api THEN BOOLEAN ELSE {FALSE}),
          again \in (IF call.exhausted /\ call.stale < 1 THEN BOOLEAN ELSE {FALSE}) :
          LET count == IF call.exhausted THEN 0 ELSE call.blocks[call.pos].count
              c2 == IF call.exhausted THEN [call EXCEPT !.stale = @ + 1]
                    ELSE IterNext(call)
          IN  /\ calls' = Append(calls, KernelCall(call, count, "fast"))
              /\ IF kernel_error
                 THEN err' = "error" /\ UNCHANGED call /\ pc' = "rl_finish"
                 ELSE /\ UNCHANGED err
                      /\ call' = c2
                      /\ pc' = IF call.exhausted
                               THEN IF again THEN "rl_fast" ELSE "rl_finish"
                               ELSE IF c2.exhausted THEN "rl_finish" ELSE "rl_fast"
    /\ UNCHANGED <<operation, arr, ind, out, otype, mem, op, iter, i, ret>>
    /\ UNCHANGED <<ufunc, initial, core>>

(* finish_loop *)
RL_Finish ==
    /\ operation = "skip"
    /\ pc = "rl_finish"
    /\ ret' = IF call.needs_api /\ err # "none" THEN "-1" ELSE "0"
    /\ pc' = "rl_done"
    /\ UNCHANGED <<operation, arr, ind, out, otype, mem, op, iter, i, err, calls>>
    /\ UNCHANGED frontVars

SkipNext == RL_Begin \/ RL_SkipBlock \/ RL_Between \/ RL_FastBlock \/ RL_Finish

SpecSkip == SkipInit /\ [][SkipNext]_vars

(* skip_first_count is the number of first-visit elements of the blocks up *)
(* to some block.                                                          *)
SkipAtBlockBoundary ==
    \E k \in 0..Len(call.blocks) : call.skip0 = FirstVisitsUpTo(call.blocks, k)

(* The accounting of the blocks. *)
BlockAccounting ==
    /\ call.skip_first_count >= 0
    /\ \A c \in 1..Len(calls) : ~calls[c].exhausted /\ calls[c].block = c
    /\ \A c1 \in 1..Len(calls), c2 \in 1..Len(calls) :
          (c1 < c2 /\ calls[c1].loop = "fast") => calls[c2].loop = "fast"
    /\ (pc = "rl_fast" \/ \E c \in 1..Len(calls) : calls[c].loop = "fast") =>
          call.skip_first_count = 0
    /\ (pc = "rl_skip") => call.skip_first_count > 0
    /\ call.removed = call.skip0 - call.skip_first_count
    /\ (pc = "rl_done" /\ err = "none") =>
          /\ Len(calls) = Len(call.blocks)
          /\ call.removed = call.skip0
          /\ call.exhausted

MaxRegistrations == 4

LoopTypes == {"NPY_INT", "NPY_LONGLONG", "NPY_ULONGLONG", "usertype"}

LoopSignatures == {<<"usertype", t>> : t \in LoopTypes}

LoopFunctions == {"loop1", "loop2"}

PyArray_EquivTypenums(type1, type2) == type1 = type2

(* Safe casts between the type numbers above: a 32-bit integer fits a      *)
(* 64-bit one; signed and unsigned 64-bit integers fit neither way; no     *)
(* cast is registered for the user type.                                   *)
PyArray_CanCastSafely(fromtype, totype) ==
    \/ fromtype = totype
    \/ fromtype = "NPY_INT" /\ totype = "NPY_LONGLONG"

RECURSIVE cmp_arg_types(_, _, _)
cmp_arg_types(arg1, arg2, n) ==
    IF n = 0 THEN 0
    ELSE IF PyArray_EquivTypenums(Head(arg1), Head(arg2))
    THEN cmp_arg_types(Tail(arg1), Tail(arg2), n - 1)
    ELSE IF PyArray_CanCastSafely(Head(arg1), Head(arg2)) THEN -1
    ELSE 1

RegistryInit ==
    /\ operation = "register"
    /\ arr = << >>
    /\ i = 0
    /\ ufunc = [nargs |-> 2]
    /\ pc = "reg_idle"
    /\ ret = "none" /\ err = "none" /\ calls = {}
    /\ ind = << >> /\ out = << >> /\ otype = "none"
    /\ mem = << >> /\ op = << >> /\ iter = NoIter
    /\ call = << >> /\ initial = "none" /\ core = << >>

(* The position the search loop stops at: the first entry that does not    *)
(* compare below the new signature, or behind the end.                     *)
RECURSIVE SearchFrom(_, _, _, _)
SearchFrom(list, newtypes, nargs, current) ==
    IF current > Len(list) THEN [current |-> current, cmp |-> -1]
    ELSE LET cmp == cmp_arg_types(list[current].arg_types, newtypes, nargs)
         IN  IF cmp >= 0 THEN [current |-> current, cmp |-> cmp]
             ELSE SearchFrom(list, newtypes, nargs, current + 1)

InsertBefore(list, current, entry) ==
    SubSeq(list, 1, current - 1) \o <<entry>> \o SubSeq(list, current, Len(list))

PyUFunc_RegisterLoopForType ==
    /\ operation = "register"
    /\ pc = "reg_idle"
    /\ i < MaxRegistrations
    /\ \E arg_types \in LoopSignatures, function \in LoopFunctions,
          allocated \in BOOLEAN :
          LET funcdata == [arg_types |-> arg_types, func |-> function]
              found == SearchFrom(arr, arg_types, ufunc.nargs, 1)
          IN  /\ call' = funcdata
              /\ IF ~allocated
                 THEN ret' = "-1" /\ err' = "MemoryError" /\ UNCHANGED arr
                 ELSE /\ ret' = "0" /\ err' = "none"
                      /\ arr' = IF arr = << >> THEN <<funcdata>>
                                ELSE IF found.current <= Len(arr) /\ found.cmp = 0
                                THEN [arr EXCEPT ![found.current].func = function]
                                ELSE InsertBefore(arr, found.current, funcdata)
    /\ i' = i + 1
    /\ UNCHANGED <<operation, ind, out, otype, mem, op, iter, pc, calls>>
    /\ UNCHANGED <<ufunc, initial, core>>

RegistryNext == PyUFunc_RegisterLoopForType

SpecRegistry == RegistryInit /\ [][RegistryNext]_vars

(* C28 as stated: after any sequence of registrations the list holds at    *)
(* most one entry per signature of argument types.                         *)
C28_Original_RegistryUnique ==
    operation = "register" =>
        \A j \in 1..Len(arr), k \in 1..Len(arr) :
            arr[j].arg_types = arr[k].arg_types => j = k

(* A signature was registered a second time behind one it does not compare *)
(* with, and the list holds it twice.                                      *)
C28_Witness ==
    /\ operation = "register" /\ Len(arr) = 3
    /\ arr[1].arg_types = <<"usertype", "NPY_LONGLONG">>
    /\ arr[2].arg_types = <<"usertype", "NPY_ULONGLONG">>
    /\ arr[3].arg_types = <<"usertype", "NPY_LONGLONG">>
    /\ call.arg_types = <<"usertype", "NPY_LONGLONG">>


(***************************************************************************)
(* _parse_signature and the operand slots it stores into.  core keeps what *)
(* the parser reached: the number of argument groups closed and the number *)
(* of them stored at or behind slot nargs of core_num_dims / core_offsets. *)
(***************************************************************************)
MaxGroupDims == 2

ParserBoundInit ==
    /\ operation = "create"
    /\ \/ \E nin \in {1, 2}, n \in 0..MaxGroupDims :
             \E flat \in [1..n -> DimTokens], a \in 0..n :
                \E b \in (IF nin = 1 THEN {a} ELSE a..n) :
                   call = SignatureOf(flat, a, b, nin)
       \/ call \in WrittenSignatures
    /\ ufunc = "NULL" /\ initial = "NULL" /\ core = "NULL"
    /\ arr = << >> /\ ind = << >> /\ out = "NULL" /\ otype = "NULL"
    /\ mem = << >> /\ op = << >> /\ iter = NoIter /\ i = 0
    /\ pc = "create" /\ ret = "" /\ err = "none" /\ calls = {}

PB_ParseSignature ==
    /\ operation = "create"
    /\ pc = "create"
    /\ LET st == _parse_signature(
                    UFuncObject("gufunc", call.nin, call.nout, "PyUFunc_None"),
                    call.signature)
       IN  /\ core' = [cur_arg |-> st.cur_arg, overrun |-> st.overrun,
                       nargs |-> st.uf.nargs]
           /\ IF st.parse_error # "NULL"
              THEN ufunc' = "NULL" /\ ret' = "-1" /\ err' = st.parse_error /\ i' = st.i
              ELSE ufunc' = st.uf /\ ret' = "0" /\ err' = err /\ i' = i
    /\ pc' = "parsed"
    /\ UNCHANGED <<operation, arr, ind, out, otype, mem, op, iter, calls>>
    /\ UNCHANGED <<call, initial>>

ParserBoundNext == PB_ParseSignature

SpecParserBound == ParserBoundInit /\ [][ParserBoundNext]_vars

(* C29 as stated: the parser stores core_num_dims[cur_arg] and             *)
(* core_offsets[cur_arg] only for cur_arg below nin + nout, and a          *)
(* signature with more or fewer argument groups than nin + nout is         *)
(* rejected.                                                               *)
C29_Original_OperandBound ==
    (operation = "create" /\ pc = "parsed") =>
        /\ core.overrun = 0
        /\ core.cur_arg # core.nargs => ret = "-1"

(* A signature with one argument group too many was rejected after the     *)
(* group had been stored behind the end of the two tables.                 *)
C29_Witness ==
    /\ operation = "create" /\ pc = "parsed"
    /\ ret = "-1" /\ core.overrun = 1 /\ core.cur_arg = core.nargs + 1

(***************************************************************************)
(* The per-call copies of the core-dimension table of a generalized call:  *)
(* core_dim_flags has PerCallCapacity entries, core_dim_sizes the PerCallCapacity  *)
(* entries of inner_dimensions behind its first.  The signatures name      *)
(* call.names different core dimensions, call.first of them in the first   *)
(* input and the others in the second; the output repeats the first name   *)
(* or has no core dimension.  PerCallCapacity stands for the two           *)
(* capacities, which are 32 in the build.                                  *)
(***************************************************************************)
PerCallCapacity == 4

MaxDistinctDims == PerCallCapacity + 2

DimNames ==
    <<"a", "b", "c", "d", "e", "f", "g", "h", "i", "j", "k", "l", "m", "n", "o",
      "p", "q", "r", "s", "t", "u", "v", "w", "x", "y", "z">>

RECURSIVE NamedDims(_, _)
NamedDims(lo, hi) ==
    IF lo > hi THEN << >>
    ELSE IF lo = hi THEN <<DimNames[lo]>>
    ELSE <<DimNames[lo], ",">> \o NamedDims(lo + 1, hi)

CapacitySignature(names, first, repeat) ==
    <<"(">> \o NamedDims(1, first) \o <<")", ",", "(">> \o NamedDims(first + 1, names)
    \o <<")", "-", ">", "(">> \o (IF repeat THEN <<DimNames[1]>> ELSE << >>) \o <<")">>

CapacityInit ==
    /\ operation = "gufunc_capacity"
    /\ \E names \in 0..MaxDistinctDims :
          \E first \in 0..names, repeat \in BOOLEAN :
             /\ repeat => first >= 1
             /\ first <= PerCallCapacity /\ names - first <= PerCallCapacity
             /\ call = [names |-> names, first |-> first,
                        signature |-> CapacitySignature(names, first, repeat),
                        nin |-> 2, nout |-> 1]
    /\ ufunc = "NULL"
    /\ core = [flags_written |-> 0, sizes_written |-> 0, iter_ndim |-> 0]
    /\ pc = "cap_create"
    /\ ret = "none" /\ err = "none" /\ calls = {}
    /\ arr = << >> /\ ind = << >> /\ out = << >> /\ otype = "none"
    /\ mem = << >> /\ op = << >> /\ iter = NoIter /\ i = 0
    /\ initial = "none"

(* The ufunc is created from the signature. *)
CAP_Create ==
    /\ operation = "gufunc_capacity"
    /\ pc = "cap_create"
    /\ LET st == _parse_signature(
                    UFuncObject("gufunc", call.nin, call.nout, "PyUFunc_None"),
                    call.signature)
       IN  IF st.parse_error # "NULL"
           THEN ufunc' = "NULL" /\ ret' = "NULL" /\ err' = st.parse_error
                /\ pc' = "cap_done"
           ELSE ufunc' = st.uf /\ ret' = "ufunc" /\ UNCHANGED err
                /\ pc' = "cap_call"
    /\ UNCHANGED <<operation, arr, ind, out, otype, mem, op, iter, i, calls>>
    /\ UNCHANGED <<call, initial, core>>

(* The number of entries _initialize_variable_parts writes into each of    *)
(* the two per-call arrays.                                                *)
EntriesCopied(uf) == uf.core_num_dim_ix

(* A generalized call starts: the table is copied into the per-call        *)
(* arrays.  A write behind the end of an array leaves the rest of the call *)
(* undefined.                                                              *)
CAP_InitializeVariableParts ==
    /\ operation = "gufunc_capacity"
    /\ pc = "cap_call"
    /\ core' = [core EXCEPT !.flags_written = EntriesCopied(ufunc),
                            !.sizes_written = EntriesCopied(ufunc)]
    /\ pc' = IF EntriesCopied(ufunc) > PerCallCapacity
             THEN "cap_undefined" ELSE "cap_ndim"
    /\ UNCHANGED <<operation, arr, ind, out, otype, mem, op, iter, i, ret, err, calls>>
    /\ UNCHANGED <<ufunc, call, initial>>

(* The number of iterator dimensions: the broadcast dimensions and the     *)
(* core dimensions of the outputs.                                         *)
CAP_IterNdim ==
    /\ operation = "gufunc_capacity"
    /\ pc = "cap_ndim"
    /\ \E broadcast_ndim \in 0..PerCallCapacity :
          LET iter_ndim == broadcast_ndim + ufunc.core_num_dims[ufunc.nin]
          IN  /\ core' = [core EXCEPT !.iter_ndim = iter_ndim]
              /\ IF iter_ndim > PerCallCapacity
                 THEN ret' = "-1" /\ err' = "ValueError" /\ pc' = "cap_done"
                 ELSE ret' = "0" /\ UNCHANGED err /\ pc' = "cap_plan"
    /\ UNCHANGED <<operation, arr, ind, out, otype, mem, op, iter, i, calls>>
    /\ UNCHANGED <<ufunc, call, initial>>

CapacityNext == CAP_Create \/ CAP_InitializeVariableParts \/ CAP_IterNdim

SpecCapacity == CapacityInit /\ [][CapacityNext]_vars

(* C30 as stated: for every ufunc the parser accepts, the copy of the      *)
(* table stays inside core_dim_flags and core_dim_sizes, and the iterator  *)
(* shape is filled up to iter_ndim, at most PerCallCapacity.                   *)
C30_Original_PerCallArraysInBounds ==
    operation = "gufunc_capacity" =>
        /\ (pc \in {"cap_call", "cap_undefined", "cap_ndim", "cap_plan"}) =>
              ufunc.core_num_dim_ix <= PerCallCapacity
        /\ core.flags_written <= PerCallCapacity
        /\ core.sizes_written <= PerCallCapacity
        /\ pc = "cap_plan" => core.iter_ndim <= PerCallCapacity

(* A signature with one core dimension more than the arrays hold was       *)
(* accepted and a call copied them all.                                    *)
C30_Witness ==
    /\ operation = "gufunc_capacity" /\ pc = "cap_undefined"
    /\ call.names = PerCallCapacity + 1 /\ ret = "ufunc"
    /\ core.flags_written = PerCallCapacity + 1

====
